---- MODULE Spec2Model ----
(***************************************************************************)
(* A model of the chess-variant rules engine: the bit-packed ChessBoard    *)
(* (src/unnamed/part_009, chess-board.ts) and the stateless ChessEngine    *)
(* (src/src/chess-engine.ts, the definitions of lines 500-1033).           *)
(*                                                                         *)
(* Objects live in heaps (sequences indexed by reference) so that sharing  *)
(* and in-place writes are visible: boards (ChessBoard objects), maps      *)
(* (castlingRights Map objects), lists (moveHistory arrays) and states     *)
(* (ChessGameState objects, whose fields hold references into the heaps).  *)
(***************************************************************************)
EXTENDS Integers, Sequences, FiniteSets, TLC

VARIABLES boards, maps, lists, states, cur, origin, last, app

vars == <<boards, maps, lists, states, cur, origin, last, app>>

(***************************************************************************)
(* Bounds of the model.                                                    *)
(***************************************************************************)
\* applyMove calls in one run of a game specification
MaxPlies == 2
\* largest turn index a hand-built starting state carries
MaxTurn == 3
\* applyMove calls in one run of the unvalidated-move specification
MaxForced == 1
\* setTile calls in one run of the board specification
MaxCalls == 1
\* calls of clone and setTile made on the boards a caller holds
MaxBoardCalls == 3
\* top-level entries of a grid literal, and items of a list written in it
MaxRows == 2
MaxRowLen == 2
\* characters of a move string in coordinate notation
MaxUciLen == 6
\* lines a player types into a game
MaxCommands == 3
\* calls made on one StockfishEngine
MaxEngineCalls == 3
\* lines typed into a replay, and ticks of its timer
MaxReplayCommands == 5

(***************************************************************************)
(* PieceType (piece-type.enums.ts).                                        *)
(***************************************************************************)
ConnectedEdge == 254
EmptyEdge == 253
Impassable == 252
SpecialTile == 251
EmptySquare == 250
None == 0
Pawn == 9
Knight == 8
Bishop == 5
Rook == 6
Queen == 7
King == 3

\* the reserved range starts here: `piece >= 250` in setTile, getTile, isValidMove
EnvThreshold == 250
\* Math.min(owner, 14) in setTile
MaxOwner == 14

Min(a, b) == IF a < b THEN a ELSE b
Abs(a) == IF a < 0 THEN 0 - a ELSE a

\* piece & mask for a single-bit mask (0x1, 0x2, 0x4, 0x8) and a value >= 0
HasBit(v, mask) == (v \div mask) % 2 = 1

\* a tile's x / y when getTile answers for an out-of-bounds square (undefined)
Undefined == 0 - 1

(***************************************************************************)
(* ChessBoard                                                              *)
(***************************************************************************)
\* constructor: width * height bytes, all EmptySquare
ChessBoard(w, h) ==
    [width |-> w, height |-> h, tiles |-> [i \in 0..(w * h - 1) |-> EmptySquare]]

getWidth(b) == b.width

getHeight(b) == b.height

isOutOfBounds(b, x, y) == x < 0 \/ x >= b.width \/ y < 0 \/ y >= b.height

\* the packing without Math.min(owner, 14)
PackUnclamped(piece, owner) == (owner * 16 + (piece % 16)) % 256

\* (safeOwner << 4) | (piece & 0x0F), as stored in a Uint8Array cell
Pack(piece, owner) == (Min(owner, MaxOwner) * 16 + (piece % 16)) % 256

\* a setTile without the bounds check of its first line
setTileUnchecked(b, x, y, piece, owner) ==
    LET packed == IF piece >= EnvThreshold THEN piece ELSE Pack(piece, owner)
    IN  [b EXCEPT !.tiles[y * b.width + x] = packed]

setTile(b, x, y, piece, owner) ==
    IF isOutOfBounds(b, x, y) THEN b
    ELSE LET packed == IF piece >= EnvThreshold THEN piece ELSE Pack(piece, owner)
         IN  [b EXCEPT !.tiles[y * b.width + x] = packed]

getTile(b, x, y) ==
    IF isOutOfBounds(b, x, y)
    THEN [piece |-> EmptySquare, owner_identifier |-> 0, x |-> Undefined, y |-> Undefined]
    ELSE LET packed == b.tiles[y * b.width + x]
         IN  IF packed >= EnvThreshold
             THEN [piece |-> packed, owner_identifier |-> 0, x |-> x, y |-> y]
             ELSE [piece |-> packed % 16, owner_identifier |-> (packed \div 16) % 16,
                   x |-> x, y |-> y]

(***************************************************************************)
(* ChessEngine: queries.  A game state value `gameState` is a              *)
(* ChessGameState with its references read through the heaps (Deref).      *)
(***************************************************************************)
\* enPassantTarget: null
Null == <<>>

\* a Map without the key answers undefined; `if (!rights)` tests for it
MapHas(m, k) == k \in DOMAIN m

IsEmptyPiece(p) == p = None \/ p = EmptySquare

\* the first participant, whatever the turn
currentPlayerFirst(gameState) == gameState.participants[1]

\* participants[turn % participants.length]
currentPlayer(gameState) ==
    IF Len(gameState.participants) = 0 THEN Undefined
    ELSE gameState.participants[(gameState.turn % Len(gameState.participants)) + 1]

\* teammates only when the same participant
areTeammatesSamePlayer(gameState, p1, p2) == p1 = p2

areTeammates(gameState, p1, p2) ==
    \/ p1 = p2
    \/ \E i \in 1..Len(gameState.teams) :
          LET members == gameState.teams[i].player_identifiers
          IN  /\ \E a \in 1..Len(members) : members[a] = p1
              /\ \E a \in 1..Len(members) : members[a] = p2

isKinematicallyValid(piece, dx, dy, owner) ==
    LET absDx == Abs(dx)
        absDy == Abs(dy)
        maxDelta == IF absDx > absDy THEN absDx ELSE absDy
        isDiagonal == absDx = absDy /\ absDx # 0
        isOrthogonal == (dx = 0 \/ dy = 0) /\ (dx # 0 \/ dy # 0)
    IN  IF HasBit(piece, 8)
        THEN IF piece = Knight
             THEN (absDx = 1 /\ absDy = 2) \/ (absDx = 2 /\ absDy = 1)
             ELSE FALSE
        ELSE IF isDiagonal /\ HasBit(piece, 1)
             THEN HasBit(piece, 4) \/ maxDelta = 1
             ELSE IF isOrthogonal /\ HasBit(piece, 2)
                  THEN HasBit(piece, 4) \/ maxDelta = 1
                  ELSE FALSE

\* const direction = (owner === 1) ? -1 : 1
pawnDirection(owner) == IF owner = 1 THEN 0 - 1 ELSE 1

\* const expectedStartY = (owner === 1) ? (height - 2) : 1
expectedStartY(gameState, owner) ==
    IF owner = 1 THEN getHeight(gameState.board) - 2 ELSE 1

\* the pawn check without the starting-rank test (the earlier isValidPawnMove,
\* chess-engine.ts:136-172)
isValidPawnMoveAnyRank(gameState, startTile, endTile, dx, dy, absDx, absDy) ==
    LET direction == pawnDirection(startTile.owner_identifier)
    IN  IF dx = 0 /\ (dy = direction \/ dy = direction * 2)
        THEN IF ~IsEmptyPiece(endTile.piece) THEN FALSE
             ELSE IF dy = direction * 2
                  THEN IsEmptyPiece(getTile(gameState.board, startTile.x + 0,
                                            startTile.y + direction).piece)
                  ELSE TRUE
        ELSE IF absDx = 1 /\ dy = direction
             THEN IF ~IsEmptyPiece(endTile.piece) THEN TRUE
                  ELSE /\ gameState.enPassantTarget # Null
                       /\ gameState.enPassantTarget[1].x = endTile.x
                       /\ gameState.enPassantTarget[1].y = endTile.y
             ELSE FALSE

isValidPawnMove(gameState, startTile, endTile, dx, dy, absDx, absDy) ==
    LET direction == pawnDirection(startTile.owner_identifier)
    IN  IF dx = 0 /\ (dy = direction \/ dy = direction * 2)
        THEN IF ~IsEmptyPiece(endTile.piece) THEN FALSE
             ELSE IF dy = direction * 2
                  THEN IF startTile.y # expectedStartY(gameState, startTile.owner_identifier)
                       THEN FALSE
                       ELSE IsEmptyPiece(getTile(gameState.board, startTile.x + 0,
                                                 startTile.y + direction).piece)
                  ELSE TRUE
        ELSE IF absDx = 1 /\ dy = direction
             THEN IF ~IsEmptyPiece(endTile.piece) THEN TRUE
                  ELSE /\ gameState.enPassantTarget # Null
                       /\ gameState.enPassantTarget[1].x = endTile.x
                       /\ gameState.enPassantTarget[1].y = endTile.y
             ELSE FALSE

\* a slider loop that looks at no square
pathBlockedNever(board, checkX, checkY, stepX, stepY, toX, toY) == FALSE

\* the slider loop of isValidMove: TRUE when a square strictly between is occupied
RECURSIVE pathBlocked(_, _, _, _, _, _, _)
pathBlocked(board, checkX, checkY, stepX, stepY, toX, toY) ==
    IF checkX = toX /\ checkY = toY THEN FALSE
    ELSE IF ~IsEmptyPiece(getTile(board, checkX, checkY).piece) THEN TRUE
         ELSE pathBlocked(board, checkX + stepX, checkY + stepY, stepX, stepY, toX, toY)

\* the path loop of isCastlingValid, along the king's rank up to toX (exclusive)
RECURSIVE castlingPathBlocked(_, _, _, _, _)
castlingPathBlocked(board, checkX, y, step, toX) ==
    IF checkX = toX THEN FALSE
    ELSE IF ~IsEmptyPiece(getTile(board, checkX, y).piece) THEN TRUE
         ELSE castlingPathBlocked(board, checkX + step, y, step, toX)

RECURSIVE isValidMove(_, _, _, _, _, _)
RECURSIVE isSquareUnderAttack(_, _, _, _)
RECURSIVE isCastlingValid(_, _, _, _)

isCastlingValid(gameState, kingTile, toX, toY) ==
    LET owner == kingTile.owner_identifier
        dx == toX - kingTile.x
        step == IF dx > 0 THEN 1 ELSE 0 - 1
    IN  IF ~MapHas(gameState.castlingRights, owner) THEN FALSE
        ELSE LET rights == gameState.castlingRights[owner]
             IN  IF dx > 0 /\ ~rights.kingSide THEN FALSE
                 ELSE IF dx < 0 /\ ~rights.queenSide THEN FALSE
                 ELSE IF castlingPathBlocked(gameState.board, kingTile.x + step,
                                             kingTile.y, step, toX)
                      THEN FALSE
                 ELSE IF isSquareUnderAttack(gameState, kingTile.x, kingTile.y, owner)
                      THEN FALSE
                 ELSE IF isSquareUnderAttack(gameState, kingTile.x + step, kingTile.y, owner)
                      THEN FALSE
                 ELSE IF isSquareUnderAttack(gameState, toX, toY, owner)
                      THEN FALSE
                 ELSE TRUE

isSquareUnderAttack(gameState, targetX, targetY, defenderOwner) ==
    LET board == gameState.board
    IN  \E y \in 0..(getHeight(board) - 1) : \E x \in 0..(getWidth(board) - 1) :
          LET tile == getTile(board, x, y)
          IN  /\ ~(IsEmptyPiece(tile.piece) \/ tile.piece >= EnvThreshold)
              /\ ~areTeammates(gameState, tile.owner_identifier, defenderOwner)
              /\ isValidMove(gameState, x, y, targetX, targetY, TRUE)

isValidMove(gameState, fromX, fromY, toX, toY, ignoreTurn) ==
    LET board == gameState.board
        startTile == getTile(board, fromX, fromY)
        endTile == getTile(board, toX, toY)
        dx == toX - fromX
        dy == toY - fromY
        absDx == Abs(dx)
        absDy == Abs(dy)
        stepX == IF dx = 0 THEN 0 ELSE dx \div absDx
        stepY == IF dy = 0 THEN 0 ELSE dy \div absDy
    IN  IF isOutOfBounds(board, fromX, fromY) \/ isOutOfBounds(board, toX, toY) THEN FALSE
        ELSE IF fromX = toX /\ fromY = toY THEN FALSE
        ELSE IF startTile.piece = None \/ startTile.piece >= EnvThreshold THEN FALSE
        ELSE IF ~ignoreTurn /\ currentPlayer(gameState) # startTile.owner_identifier THEN FALSE
        ELSE IF /\ endTile.owner_identifier # 0
                /\ areTeammates(gameState, startTile.owner_identifier,
                                endTile.owner_identifier)
             THEN FALSE
        ELSE IF ~( IF startTile.piece = Pawn
                   THEN isValidPawnMove(gameState, startTile, endTile, dx, dy, absDx, absDy)
                   ELSE IF startTile.piece = King /\ absDx > 1
                        THEN isCastlingValid(gameState, startTile, toX, toY)
                        ELSE isKinematicallyValid(startTile.piece, dx, dy,
                                                  startTile.owner_identifier) )
             THEN FALSE
        ELSE IF HasBit(startTile.piece, 4)
             THEN ~pathBlocked(board, fromX + stepX, fromY + stepY, stepX, stepY, toX, toY)
             ELSE TRUE

\* The same three functions with the calls of isValidMove that have not returned yet
\* (`active`, each call its five arguments after gameState).  The functions read
\* nothing but their arguments, so a call of isValidMove made while a call with the
\* same arguments is active makes that call again, without end: the recursion runs
\* until the engine throws RangeError (Maximum call stack size exceeded).
Returns(b) == [returns |-> TRUE, value |-> b]

RangeError == [returns |-> FALSE, value |-> FALSE]

RECURSIVE isValidMoveOnStack(_, _, _, _, _, _, _)
RECURSIVE attackScan(_, _, _, _, _, _)
RECURSIVE isCastlingValidOnStack(_, _, _, _, _)

isCastlingValidOnStack(gameState, kingTile, toX, toY, active) ==
    LET owner == kingTile.owner_identifier
        dx == toX - kingTile.x
        step == IF dx > 0 THEN 1 ELSE 0 - 1
        start == attackScan(gameState, kingTile.x, kingTile.y, owner, 0, active)
        crossed == attackScan(gameState, kingTile.x + step, kingTile.y, owner, 0, active)
        destination == attackScan(gameState, toX, toY, owner, 0, active)
    IN  IF ~MapHas(gameState.castlingRights, owner) THEN Returns(FALSE)
        ELSE LET rights == gameState.castlingRights[owner]
             IN  IF dx > 0 /\ ~rights.kingSide THEN Returns(FALSE)
                 ELSE IF dx < 0 /\ ~rights.queenSide THEN Returns(FALSE)
                 ELSE IF castlingPathBlocked(gameState.board, kingTile.x + step,
                                             kingTile.y, step, toX)
                      THEN Returns(FALSE)
                 ELSE IF ~start.returns THEN RangeError
                 ELSE IF start.value THEN Returns(FALSE)
                 ELSE IF ~crossed.returns THEN RangeError
                 ELSE IF crossed.value THEN Returns(FALSE)
                 ELSE IF ~destination.returns THEN RangeError
                 ELSE IF destination.value THEN Returns(FALSE)
                 ELSE Returns(TRUE)

\* the two loops of isSquareUnderAttack from the k-th tile on, y outer and x inner
attackScan(gameState, targetX, targetY, defenderOwner, k, active) ==
    LET board == gameState.board
        x == k % getWidth(board)
        y == k \div getWidth(board)
        tile == getTile(board, x, y)
        attack == isValidMoveOnStack(gameState, x, y, targetX, targetY, TRUE, active)
    IN  IF k >= getWidth(board) * getHeight(board) THEN Returns(FALSE)
        ELSE IF IsEmptyPiece(tile.piece) \/ tile.piece >= EnvThreshold
             THEN attackScan(gameState, targetX, targetY, defenderOwner, k + 1, active)
        ELSE IF areTeammates(gameState, tile.owner_identifier, defenderOwner)
             THEN attackScan(gameState, targetX, targetY, defenderOwner, k + 1, active)
        ELSE IF ~attack.returns THEN RangeError
        ELSE IF attack.value THEN Returns(TRUE)
        ELSE attackScan(gameState, targetX, targetY, defenderOwner, k + 1, active)

isSquareUnderAttackOnStack(gameState, targetX, targetY, defenderOwner) ==
    attackScan(gameState, targetX, targetY, defenderOwner, 0, {})

isValidMoveOnStack(gameState, fromX, fromY, toX, toY, ignoreTurn, active) ==
    LET board == gameState.board
        call == <<fromX, fromY, toX, toY, ignoreTurn>>
        startTile == getTile(board, fromX, fromY)
        endTile == getTile(board, toX, toY)
        dx == toX - fromX
        dy == toY - fromY
        absDx == Abs(dx)
        absDy == Abs(dy)
        stepX == IF dx = 0 THEN 0 ELSE dx \div absDx
        stepY == IF dy = 0 THEN 0 ELSE dy \div absDy
        castling == isCastlingValidOnStack(gameState, startTile, toX, toY,
                                           active \cup {call})
    IN  IF call \in active THEN RangeError
        ELSE IF isOutOfBounds(board, fromX, fromY) \/ isOutOfBounds(board, toX, toY)
             THEN Returns(FALSE)
        ELSE IF fromX = toX /\ fromY = toY THEN Returns(FALSE)
        ELSE IF startTile.piece = None \/ startTile.piece >= EnvThreshold
             THEN Returns(FALSE)
        ELSE IF ~ignoreTurn /\ currentPlayer(gameState) # startTile.owner_identifier
             THEN Returns(FALSE)
        ELSE IF /\ endTile.owner_identifier # 0
                /\ areTeammates(gameState, startTile.owner_identifier,
                                endTile.owner_identifier)
             THEN Returns(FALSE)
        ELSE IF startTile.piece = Pawn
             THEN Returns(isValidPawnMove(gameState, startTile, endTile, dx, dy,
                                          absDx, absDy))
        ELSE IF startTile.piece = King /\ absDx > 1
             THEN castling
        ELSE IF ~isKinematicallyValid(startTile.piece, dx, dy, startTile.owner_identifier)
             THEN Returns(FALSE)
        ELSE IF HasBit(startTile.piece, 4)
             THEN Returns(~pathBlocked(board, fromX + stepX, fromY + stepY, stepX, stepY,
                                       toX, toY))
             ELSE Returns(TRUE)

(***************************************************************************)
(* ChessEngine: state transition.  H is the record of the four heaps.      *)
(***************************************************************************)
\* a ChessGameState read through its references
Deref(bs, ms, ls, s) ==
    [board |-> bs[s.board], turn |-> s.turn, participants |-> s.participants,
     teams |-> s.teams, castlingRights |-> ms[s.castlingRights],
     enPassantTarget |-> s.enPassantTarget, moveHistory |-> ls[s.moveHistory]]

\* a clone() that hands back the board itself
cloneSameObject(bs, ref) == [heap |-> bs, ref |-> ref]

\* ChessBoard.clone(): a new object holding a copy of the bytes
clone(bs, ref) == [heap |-> Append(bs, bs[ref]), ref |-> Len(bs) + 1]

\* new Map(gameState.castlingRights): a new Map with the same entries
copyMap(ms, ref) == [heap |-> Append(ms, ms[ref]), ref |-> Len(ms) + 1]

\* a new array with the move put first
spreadPrepend(ls, ref, move) ==
    [heap |-> Append(ls, <<move>> \o ls[ref]), ref |-> Len(ls) + 1]

\* [...gameState.moveHistory, move]: a new array
spreadAppend(ls, ref, move) == [heap |-> Append(ls, Append(ls[ref], move)), ref |-> Len(ls) + 1]

\* Map.set(k, v)
MapSet(m, k, v) == [x \in (DOMAIN m) \cup {k} |-> IF x = k THEN v ELSE m[x]]

\* the rook search of step 5: scan outwards while the tile is EmptySquare and in bounds
RECURSIVE scanRook(_, _, _, _)
scanRook(board, rookSrcX, y, step) ==
    IF getTile(board, rookSrcX, y).piece = EmptySquare /\ ~isOutOfBounds(board, rookSrcX, y)
    THEN scanRook(board, rookSrcX + step, y, step)
    ELSE rookSrcX

\* a promotion that always makes a queen
finalPieceQueen(piece, move) ==
    IF piece = Pawn /\ move.promotion # None THEN Queen ELSE piece

\* step 3: the piece written on the destination
finalPiece(piece, move) ==
    IF piece = Pawn /\ move.promotion # None THEN move.promotion ELSE piece

\* step 4 on newBoard: the en-passant capture
enPassantCapture(newBoard, piece, owner, move) ==
    IF piece = Pawn /\ Abs(move.toX - move.fromX) = 1
    THEN IF IsEmptyPiece(getTile(newBoard, move.toX, move.toY).piece)
         THEN setTile(newBoard, move.toX, move.toY - pawnDirection(owner), EmptySquare, 0)
         ELSE newBoard
    ELSE newBoard

\* a rook relocation that leaves the rook on its corner as well
castlingRookCopied(newBoard, piece, owner, move) ==
    IF piece = King /\ Abs(move.toX - move.fromX) > 1
    THEN LET dx == move.toX - move.fromX
             rookDestX == IF dx > 0 THEN move.toX - 1 ELSE move.toX + 1
         IN  setTile(newBoard, rookDestX, move.fromY, Rook, owner)
    ELSE newBoard

\* step 5 on newBoard: the rook relocation of castling
castlingRook(newBoard, piece, owner, move) ==
    IF piece = King /\ Abs(move.toX - move.fromX) > 1
    THEN LET dx == move.toX - move.fromX
             y == move.fromY
             rookDestX == IF dx > 0 THEN move.toX - 1 ELSE move.toX + 1
             step == IF dx > 0 THEN 1 ELSE 0 - 1
             rookSrcX == scanRook(newBoard, move.toX + step, y, step)
         IN  IF getTile(newBoard, rookSrcX, y).piece = Rook
             THEN setTile(setTile(newBoard, rookDestX, y, Rook, owner),
                          rookSrcX, y, EmptySquare, 0)
             ELSE newBoard
    ELSE newBoard

\* step 6 on newBoard: the main piece
movePiece(newBoard, piece, owner, move) ==
    setTile(setTile(newBoard, move.toX, move.toY, finalPiece(piece, move), owner),
            move.fromX, move.fromY, EmptySquare, 0)

\* the two sides taken for each other when a rook leaves a corner file
updateCastlingRightsSwapped(newCastlingRights, piece, owner, move, width) ==
    IF piece = King
    THEN MapSet(newCastlingRights, owner, [kingSide |-> FALSE, queenSide |-> FALSE])
    ELSE IF piece = Rook /\ MapHas(newCastlingRights, owner)
         THEN IF move.fromX = 0
              THEN MapSet(newCastlingRights, owner,
                          [newCastlingRights[owner] EXCEPT !.kingSide = FALSE])
              ELSE IF move.fromX = width - 1
                   THEN MapSet(newCastlingRights, owner,
                               [newCastlingRights[owner] EXCEPT !.queenSide = FALSE])
                   ELSE newCastlingRights
         ELSE newCastlingRights

\* a king move that sets its owner's rights anew
updateCastlingRightsReset(newCastlingRights, piece, owner, move, width) ==
    IF piece = King
    THEN MapSet(newCastlingRights, owner, [kingSide |-> TRUE, queenSide |-> TRUE])
    ELSE newCastlingRights

\* step 7 on newCastlingRights
updateCastlingRights(newCastlingRights, piece, owner, move, width) ==
    IF piece = King
    THEN MapSet(newCastlingRights, owner, [kingSide |-> FALSE, queenSide |-> FALSE])
    ELSE IF piece = Rook
         THEN IF move.fromX = 0
              THEN IF MapHas(newCastlingRights, owner)
                   THEN MapSet(newCastlingRights, owner,
                               [newCastlingRights[owner] EXCEPT !.queenSide = FALSE])
                   ELSE newCastlingRights
              ELSE IF move.fromX = width - 1
                   THEN IF MapHas(newCastlingRights, owner)
                        THEN MapSet(newCastlingRights, owner,
                                    [newCastlingRights[owner] EXCEPT !.kingSide = FALSE])
                        ELSE newCastlingRights
                   ELSE newCastlingRights
         ELSE newCastlingRights

\* a target set for any piece that moves two ranks
newEnPassantAnyPiece(piece, move) ==
    IF Abs(move.toY - move.fromY) = 2
    THEN <<[x |-> move.fromX, y |-> (move.fromY + move.toY) \div 2]>>
    ELSE Null

\* step 8
newEnPassant(piece, move) ==
    IF piece = Pawn /\ Abs(move.toY - move.fromY) = 2
    THEN <<[x |-> move.fromX, y |-> (move.fromY + move.toY) \div 2]>>
    ELSE Null

\* a turn counter that is never reduced
newTurnUnreduced(turn, participants) == turn + 1

\* step 9
newTurn(turn, participants) == (turn + 1) % Len(participants)

\* applyMove(gameState, move) for the state object sref: the heaps after the call and
\* the reference of the returned state
applyMove(H, sref, move) ==
    LET gameState == H.states[sref]
        startTile == getTile(H.boards[gameState.board], move.fromX, move.fromY)
        piece == startTile.piece
        owner == startTile.owner_identifier
        width == getWidth(H.boards[gameState.board])
        nb == clone(H.boards, gameState.board)
        nm == copyMap(H.maps, gameState.castlingRights)
        nl == spreadAppend(H.lists, gameState.moveHistory, move)
        written == movePiece(castlingRook(enPassantCapture(nb.heap[nb.ref], piece, owner, move),
                                           piece, owner, move),
                             piece, owner, move)
        returned == [board |-> nb.ref,
                     turn |-> newTurn(gameState.turn, gameState.participants),
                     participants |-> gameState.participants,
                     teams |-> gameState.teams,
                     castlingRights |-> nm.ref,
                     enPassantTarget |-> newEnPassant(piece, move),
                     moveHistory |-> nl.ref]
    IN  [boards |-> [nb.heap EXCEPT ![nb.ref] = written],
         maps |-> [nm.heap EXCEPT ![nm.ref] =
                       updateCastlingRights(@, piece, owner, move, width)],
         lists |-> nl.heap,
         states |-> Append(H.states, returned),
         result |-> Len(H.states) + 1]

(***************************************************************************)
(* Starting positions.  Callers build boards with setTile and states by    *)
(* hand (tests/limitations.test.ts, tests/engine-completion.test.ts).      *)
(***************************************************************************)
\* a board after a list of setTile(x, y, piece, owner) calls
RECURSIVE place(_, _)
place(b, pieces) ==
    IF pieces = <<>> THEN b
    ELSE place(setTile(b, pieces[1][1], pieces[1][2], pieces[1][3], pieces[1][4]), Tail(pieces))

FullRights == [kingSide |-> TRUE, queenSide |-> TRUE]

Move(fx, fy, tx, ty, promo) ==
    [fromX |-> fx, fromY |-> fy, toX |-> tx, toY |-> ty, promotion |-> promo]

\* no application object: the library is called directly
NoApp == [kind |-> "none"]

\* the heaps holding one hand-built state, which is current
Start(board, turn, participants, teams, rights) ==
    /\ boards = <<board>>
    /\ maps = <<rights>>
    /\ lists = << <<>> >>
    /\ states = <<[board |-> 1, turn |-> turn, participants |-> participants,
                   teams |-> teams, castlingRights |-> 1, enPassantTarget |-> Null,
                   moveHistory |-> 1]>>
    /\ cur = 1
    /\ app = NoApp
    /\ origin = <<[src |-> 0, move |-> Move(0, 0, 0, 0, None), valid |-> FALSE,
                   before |-> <<>>]>>
    /\ last = [op |-> "init", n |-> 0]

\* 7 x 5: pawns of three owners on and off their home ranks, a pawn of owner 1 and a
\* pawn of owner 2 about to promote, each with a piece to capture, and a king and a
\* rook of owner 1 ready to castle
GameBoard ==
    place(ChessBoard(7, 5),
          << <<0, 3, Pawn, 1>>, <<1, 1, Pawn, 2>>, <<2, 1, Pawn, 3>>, <<3, 2, Pawn, 1>>,
             <<4, 1, Pawn, 1>>, <<5, 0, Knight, 2>>, <<5, 3, Pawn, 2>>,
             <<2, 4, King, 1>>, <<6, 4, Rook, 1>> >>)

InitGame ==
    \E participants \in {<<1, 2>>, <<1, 2, 3>>} : \E turn \in {0, 1} :
        Start(GameBoard, turn, participants, <<>>,
              [o \in {1, 2} |-> FullRights])

PieceTypes == {Pawn, Knight, Bishop, Rook, Queen, King}

\* 5 x 3: king and rook of owner 1 on the bottom rank with both rights, and one piece
\* of owner 2 of any type on any other square
CastlingBoard(attacker, ax, ay) ==
    place(ChessBoard(5, 3),
          << <<ax, ay, attacker, 2>>, <<0, 2, King, 1>>, <<4, 2, Rook, 1>> >>)

InitCastling ==
    \E attacker \in PieceTypes : \E ax \in 0..4 : \E ay \in 0..2 : \E turn \in {0, 1} :
        /\ <<ax, ay>> \notin {<<0, 2>>, <<4, 2>>}
        /\ Start(CastlingBoard(attacker, ax, ay), turn, <<1, 2>>, <<>>,
                 [o \in {1} |-> FullRights])

\* 5 x 5: a piece of owner 1 of any type in the centre and a rook of owner 1, 2 or 3 on
\* any other square; 1 and 2 share a team, 3 is in another
TeamBoard(mover, tx, ty, towner) ==
    place(ChessBoard(5, 5), << <<2, 2, mover, 1>>, <<tx, ty, Rook, towner>> >>)

TeamList ==
    << [team_identifier |-> 1, player_identifiers |-> <<1, 2>>],
       [team_identifier |-> 2, player_identifiers |-> <<3>>] >>

InitTeams ==
    \E mover \in PieceTypes : \E tx \in 0..4 : \E ty \in 0..4 : \E towner \in {1, 2, 3} :
        /\ <<tx, ty>> # <<2, 2>>
        /\ Start(TeamBoard(mover, tx, ty, towner), 0, <<1, 2, 3>>, TeamList, <<>>)

\* 4 x 5: a castling move, a promotion and (after the double step of the pawn of
\* owner 2) an en-passant capture are legal for owner 1
UndoBoard ==
    place(ChessBoard(4, 5),
          << <<0, 4, King, 1>>, <<3, 4, Rook, 1>>, <<2, 3, Pawn, 1>>, <<0, 1, Pawn, 1>>,
             <<3, 1, Pawn, 2>> >>)

InitUndo ==
    \E turn \in {0, 1} :
        Start(UndoBoard, turn, <<1, 2>>, <<>>, [o \in {1, 2} |-> FullRights])

\* 4 x 3: every special case of applyMove within reach of one unvalidated move
AnyBoard ==
    place(ChessBoard(4, 3),
          << <<0, 2, King, 1>>, <<3, 2, Rook, 1>>, <<1, 1, Pawn, 1>>, <<2, 1, Pawn, 2>>,
             <<3, 0, Knight, 2>> >>)

InitAny ==
    \E participants \in {<<1, 2>>, <<1, 2, 3>>} : \E turn \in 0..MaxTurn :
        Start(AnyBoard, turn, participants, <<>>, [o \in {1, 2} |-> FullRights])

(***************************************************************************)
(* Actions of a game.                                                      *)
(***************************************************************************)
Heaps == [boards |-> boards, maps |-> maps, lists |-> lists, states |-> states]

\* the current state, read through its references
Current == Deref(boards, maps, lists, states[cur])

Promotions == {None, Queen, Knight}

Squares(b) == (0..(b.width - 1)) \X (0..(b.height - 1))

\* the squares of `b` that hold something: a move from any other square is rejected by
\* isValidMove at once
Occupied(b) == {sq \in Squares(b) : ~IsEmptyPiece(getTile(b, sq[1], sq[2]).piece)}

Apply(move, valid) ==
    LET r == applyMove(Heaps, cur, move)
    IN  /\ boards' = r.boards
        /\ maps' = r.maps
        /\ lists' = r.lists
        /\ states' = r.states
        /\ cur' = r.result
        /\ origin' = Append(origin, [src |-> cur, move |-> move, valid |-> valid,
                                      before |-> Current])
        /\ last' = [op |-> "applyMove", n |-> last.n + 1]
        /\ app' = app

\* the caller's protocol: isValidMove, then applyMove; a promotion piece is proposed
\* only with a pawn
PlayMove ==
    /\ cur # 0
    /\ last.n < MaxPlies
    /\ LET gameState == Current
       IN  \E from \in Occupied(gameState.board) : \E to \in Squares(gameState.board) :
             /\ isValidMove(gameState, from[1], from[2], to[1], to[2], FALSE)
             /\ \E promo \in Promotions :
                  /\ promo # None => getTile(gameState.board, from[1], from[2]).piece = Pawn
                  /\ Apply(Move(from[1], from[2], to[1], to[2], promo), TRUE)

\* applyMove without validation, for any two squares of the board
ForceMove ==
    /\ cur # 0
    /\ last.n < MaxForced
    /\ LET gameState == Current
       IN  \E from \in Squares(gameState.board) : \E to \in Squares(gameState.board) :
           \E promo \in {None, Queen} :
             Apply(Move(from[1], from[2], to[1], to[2], promo),
                   isValidMove(gameState, from[1], from[2], to[1], to[2], FALSE))

\* the caller goes back to the state it kept, the one the current state came from
Undo ==
    /\ cur # 0
    /\ origin[cur].src # 0
    /\ cur' = origin[cur].src
    /\ last' = [op |-> "undo", n |-> last.n]
    /\ UNCHANGED <<boards, maps, lists, states, origin, app>>

\* a new, empty 2 x 2 board and no game state
InitBoard ==
    /\ boards = <<ChessBoard(2, 2)>>
    /\ maps = <<>>
    /\ lists = <<>>
    /\ states = <<>>
    /\ cur = 0
    /\ app = NoApp
    /\ origin = <<>>
    /\ last = [op |-> "new", n |-> 0]

\* the values a caller passes as piece: the 4-bit range and two environmental tiles
PieceValues == (0..15) \cup {EmptySquare, Impassable}

\* the values a caller passes as owner: the 4-bit range
OwnerValues == 0..15

\* board.setTile(x, y, piece, owner) on the board, for a square on it or just off it
BoardSetTile ==
    /\ last.n < MaxCalls
    /\ \E x \in 0..getWidth(boards[1]) : \E y \in 0..(getHeight(boards[1]) - 1) :
       \E piece \in PieceValues : \E owner \in OwnerValues :
          /\ boards' = [boards EXCEPT ![1] = setTile(@, x, y, piece, owner)]
          /\ last' = [op |-> "setTile", n |-> last.n + 1, x |-> x, y |-> y,
                      piece |-> piece, owner |-> owner, before |-> boards[1]]
    /\ UNCHANGED <<maps, lists, states, cur, origin, app>>

\* one board a caller built, 2 x 1 with a pawn of owner 1 on (0, 0); origin lists the
\* boards the caller holds: the heap reference and the held board it was cloned from
InitClone ==
    /\ boards = <<place(ChessBoard(2, 1), << <<0, 0, Pawn, 1>> >>)>>
    /\ maps = <<>>
    /\ lists = <<>>
    /\ states = <<>>
    /\ cur = 0
    /\ app = NoApp
    /\ origin = <<[src |-> 0, ref |-> 1]>>
    /\ last = [op |-> "new", n |-> 0]

\* what the caller writes: a piece, an empty tile, an environmental tile
Writes == {<<King, 2>>, <<EmptySquare, 0>>, <<Impassable, 0>>}

\* b2 = b.clone() for a board b the caller holds
BoardClone ==
    /\ last.n < MaxBoardCalls
    /\ \E h \in 1..Len(origin) :
          LET r == clone(boards, origin[h].ref)
          IN  /\ boards' = r.heap
              /\ origin' = Append(origin, [src |-> h, ref |-> r.ref])
              /\ last' = [op |-> "clone", n |-> last.n + 1, h |-> Len(origin) + 1,
                          before |-> boards]
    /\ UNCHANGED <<maps, lists, states, cur, app>>

\* b.setTile(x, y, piece, owner) for a board b the caller holds
HeldSetTile ==
    /\ last.n < MaxBoardCalls
    /\ \E h \in 1..Len(origin) : \E x \in 0..1 : \E w \in Writes :
          /\ boards' = [boards EXCEPT ![origin[h].ref] = setTile(@, x, 0, w[1], w[2])]
          /\ last' = [op |-> "setTile", n |-> last.n + 1, h |-> h, x |-> x, y |-> 0,
                      piece |-> w[1], owner |-> w[2], before |-> boards]
    /\ UNCHANGED <<maps, lists, states, cur, origin, app>>

\* a grid literal's values: null, a number, an object {piece, owner}, an array
NullItem == [kind |-> "null"]

NumberItem(n) == [kind |-> "number", value |-> n]

ObjectItem(piece, owner) == [kind |-> "object", piece |-> piece, owner |-> owner]

ArrayItem(items) == [kind |-> "array", items |-> items]

RECURSIVE flatOnce(_, _)
\* the items from i on, with the lists among them opened by one level
flatOnce(items, i) ==
    IF i > Len(items) THEN <<>>
    ELSE (IF items[i].kind = "array" THEN items[i].items ELSE <<items[i]>>)
         \o flatOnce(items, i + 1)

\* flattening by one level only, as Array.prototype.flat() does
flattenRowOneLevel(rowItems) ==
    IF rowItems.kind = "array" THEN flatOnce(rowItems.items, 1) ELSE <<rowItems>>

RECURSIVE flattenRow(_)
RECURSIVE flatMap(_, _)
\* rowItems.flatMap(flattenRow), from item i on
flatMap(items, i) ==
    IF i > Len(items) THEN <<>> ELSE flattenRow(items[i]) \o flatMap(items, i + 1)

flattenRow(rowItems) ==
    IF rowItems.kind = "array" THEN flatMap(rowItems.items, 1) ELSE <<rowItems>>

normalizedRows(input) == [r \in 1..Len(input) |-> flattenRow(input[r])]

RECURSIVE maxWidth(_, _)
\* the running Math.max over the rows from r on
maxWidth(rows, r) ==
    IF r > Len(rows) THEN 0
    ELSE LET rest == maxWidth(rows, r + 1)
         IN  IF Len(rows[r]) > rest THEN Len(rows[r]) ELSE rest

\* the body of the inner loop for tile (x, y)
gridItem(board, row, x, y) ==
    IF x >= Len(row) THEN board
    ELSE LET item == row[x + 1]
         IN  CASE item.kind = "object" -> setTile(board, x, y, item.piece, item.owner)
               [] item.kind = "number" -> setTile(board, x, y, item.value, 0)
               [] OTHER -> board

RECURSIVE gridLoop(_, _, _)
\* the two loops, y outer and x inner, from the k-th tile on
gridLoop(board, rows, k) ==
    IF board.width = 0 \/ k >= board.width * board.height THEN board
    ELSE gridLoop(gridItem(board, rows[(k \div board.width) + 1], k % board.width,
                           k \div board.width), rows, k + 1)

fromGrid(input) ==
    LET rows == normalizedRows(input)
    IN  gridLoop(ChessBoard(maxWidth(rows, 1), Len(rows)), rows, 0)

\* sequences over S of length 0..n
SeqUpTo(S, n) == UNION { [1..k -> S] : k \in 0..n }

\* the items written in a grid literal: null, a bare piece type, a {piece, owner}
\* object, and a list that holds an object and two more lists
GridAtoms == {NullItem, NumberItem(Rook), ObjectItem(King, 2)}

NestedItem == ArrayItem(<<ObjectItem(Pawn, 1), ArrayItem(<<NumberItem(Knight)>>),
                          ArrayItem(<<>>)>>)

GridEntries == GridAtoms \cup { ArrayItem(items) :
                                  items \in SeqUpTo({NullItem, NumberItem(Rook), NestedItem},
                                                    MaxRowLen) }

Grids == SeqUpTo(GridEntries, MaxRows)

\* a caller has written a grid literal
InitGrid ==
    /\ boards = <<>>
    /\ maps = <<>>
    /\ lists = <<>>
    /\ states = <<>>
    /\ cur = 0
    /\ app = NoApp
    /\ origin = <<>>
    /\ \E input \in Grids : last = [op |-> "literal", n |-> 0, input |-> input]

\* ChessBoard.fromGrid(input)
FromGrid ==
    /\ last.op = "literal"
    /\ boards' = Append(boards, fromGrid(last.input))
    /\ last' = [op |-> "fromGrid", n |-> last.n + 1, input |-> last.input]
    /\ UNCHANGED <<maps, lists, states, cur, origin, app>>

\* String.charCodeAt(0) for the characters of a move in notation
charCode(ch) ==
    CASE ch = "a" -> 97 [] ch = "b" -> 98 [] ch = "c" -> 99 [] ch = "d" -> 100
      [] ch = "e" -> 101 [] ch = "f" -> 102 [] ch = "g" -> 103 [] ch = "h" -> 104
      [] ch = "1" -> 49 [] ch = "2" -> 50 [] ch = "3" -> 51 [] ch = "4" -> 52
      [] ch = "5" -> 53 [] ch = "6" -> 54 [] ch = "7" -> 55 [] ch = "8" -> 56
      [] ch = "n" -> 110 [] ch = "q" -> 113

\* NaN: equal to no coordinate
NaN == 0 - 1000

\* parseInt of one character
parseInt(ch) == IF charCode(ch) \in 48..57 THEN charCode(ch) - 48 ELSE NaN

\* 8 - n, NaN when n is
eightMinus(n) == IF n = NaN THEN NaN ELSE 8 - n

\* the board side findCandidates scans
ScanSize == 8

\* every letter read as a pawn
charToPieceTypePawn(char) == Pawn

charToPieceType(char) ==
    CASE char = "N" -> Knight [] char = "B" -> Bishop [] char = "R" -> Rook
      [] char = "Q" -> Queen [] char = "K" -> King [] OTHER -> Pawn

\* participants[turn], undefined past the end of the list
pidOf(gameState) ==
    IF gameState.turn < Len(gameState.participants)
    THEN gameState.participants[gameState.turn + 1] ELSE Undefined

\* the tiles in the order the two loops visit them, y outer and x inner
scanned(gameState) ==
    [k \in 1..(ScanSize * ScanSize) |->
        getTile(gameState.board, (k - 1) % ScanSize, (k - 1) \div ScanSize)]

\* the tiles the scan pushes, in its order
findCandidates(gameState, pieceType) ==
    LET pushed(tile) == tile.piece = pieceType /\ tile.owner_identifier = pidOf(gameState)
    IN  SelectSeq(scanned(gameState), pushed)

\* step 4: the candidates the disambiguation characters leave
disambiguate(candidates, disambiguation) ==
    IF Len(disambiguation) = 1
    THEN IF charCode(disambiguation[1]) >= charCode("a")
            /\ charCode(disambiguation[1]) <= charCode("h")
         THEN LET fileIdx == charCode(disambiguation[1]) - charCode("a")
                  onFile(c) == c.x = fileIdx
              IN  SelectSeq(candidates, onFile)
         ELSE LET rankIdx == eightMinus(parseInt(disambiguation[1]))
                  onRank(c) == c.y = rankIdx
              IN  SelectSeq(candidates, onRank)
    ELSE IF Len(disambiguation) = 2
    THEN LET fileIdx == charCode(disambiguation[1]) - charCode("a")
             rankIdx == eightMinus(parseInt(disambiguation[2]))
             onSquare(c) == c.x = fileIdx /\ c.y = rankIdx
         IN  SelectSeq(candidates, onSquare)
    ELSE candidates

\* ChessNotation.parseMove for a string the pattern matched as san.piece,
\* san.disambiguation, san.file, san.rank, san.promotion ("" where a group is absent)
parseMove(gameState, san) ==
    LET toX == charCode(san.file) - charCode("a")
        targetY == 8 - parseInt(san.rank)
        pieceType == charToPieceType(san.piece)
        promotion == IF san.promotion = "" THEN None ELSE charToPieceType(san.promotion)
        candidates == findCandidates(gameState, pieceType)
        filtered == disambiguate(candidates, san.disambiguation)
        legal(c) == isValidMove(gameState, c.x, c.y, toX, targetY, FALSE)
        validCandidates == SelectSeq(filtered, legal)
    IN  IF Len(validCandidates) = 0
        THEN [ok |-> FALSE, error |-> "No legal move found", found |-> 0]
        ELSE IF Len(validCandidates) > 1
        THEN [ok |-> FALSE, error |-> "Ambiguous move", found |-> Len(validCandidates)]
        ELSE [ok |-> TRUE,
              move |-> Move(validCandidates[1].x, validCandidates[1].y, toX, targetY,
                            promotion)]

\* 9 x 2, wider than the scan: a pawn of owner 1 on (1, 1), a pawn of owner 2 on
\* (3, 0) and two rooks of owner 1
SanBoard(r1, r2) ==
    place(ChessBoard(9, 2), << <<1, 1, Pawn, 1>>, <<3, 0, Pawn, 2>>,
                               <<r1[1], r1[2], Rook, 1>>, <<r2[1], r2[2], Rook, 1>> >>)

RookSquares == {<<0, 0>>, <<7, 0>>, <<8, 0>>, <<0, 1>>, <<8, 1>>}

InitSan ==
    \E r1 \in RookSquares : \E r2 \in RookSquares : \E turn \in {0, 1} :
        /\ r1 # r2
        /\ Start(SanBoard(r1, r2), turn, <<1, 2>>, <<>>, <<>>)

\* moves in notation, as the groups the pattern of parseMove splits them into
SanStrings ==
    [piece : {"", "R"},
     disambiguation : {<<>>, <<"a">>, <<"h">>, <<"8">>, <<"7">>, <<"h", "8">>},
     file : {"a", "b", "d", "h"},
     rank : {"7", "8"},
     promotion : {"", "Q"}]

\* ChessNotation.parseMove(gameState, san) on the current state
ParseMove ==
    /\ cur # 0
    /\ last.n < MaxCalls
    /\ \E san \in SanStrings :
          last' = [op |-> "parseMove", n |-> last.n + 1, san |-> san,
                   result |-> parseMove(Current, san)]
    /\ UNCHANGED <<boards, maps, lists, states, cur, origin, app>>

\* a replace that leaves the check and mate marks in
cleanSanKept(san) == san

\* san.replace(/[+#]/g, ''), a string being the sequence of its characters
cleanSan(san) ==
    LET kept(c) == c # "+" /\ c # "#"
    IN  SelectSeq(san, kept)

PieceLetters == {"N", "B", "R", "Q", "K"}

FileChars == {"a", "b", "c", "d", "e", "f", "g", "h"}

RankChars == {"1", "2", "3", "4", "5", "6", "7", "8"}

\* cleanSan.match(moveRegex): the pattern is anchored at both ends and its last three
\* groups have fixed lengths, so the groups are read from the end of the string: the
\* promotion, the target rank and file, the capture mark, and before them at most one
\* piece letter and at most two disambiguation characters ("" for an absent group)
moveRegex(s) ==
    LET n == Len(s)
        hasPromotion == n >= 2 /\ s[n - 1] = "=" /\ s[n] \in {"N", "B", "R", "Q"}
        m == IF hasPromotion THEN n - 2 ELSE n
        hasTarget == m >= 2 /\ s[m - 1] \in FileChars /\ s[m] \in RankChars
        c == m - 2
        isCapture == c >= 1 /\ s[c] = "x"
        p == IF isCapture THEN c - 1 ELSE c
        hasPiece == p >= 1 /\ s[1] \in PieceLetters
        rest == SubSeq(s, IF hasPiece THEN 2 ELSE 1, p)
    IN  IF /\ hasTarget
           /\ Len(rest) <= 2
           /\ \A i \in 1..Len(rest) : rest[i] \in FileChars \cup RankChars
        THEN [ok |-> TRUE,
              piece |-> IF hasPiece THEN s[1] ELSE "",
              disambiguation |-> rest,
              file |-> s[m - 1],
              rank |-> s[m],
              promotion |-> IF hasPromotion THEN s[n] ELSE ""]
        ELSE [ok |-> FALSE]

\* the scan of parseCastling: the first king of participants[turn] the loops meet,
\* Null when the 8 x 8 scan finds none
findKing(gameState) ==
    LET kings == findCandidates(gameState, King)
    IN  IF Len(kings) = 0 THEN Null ELSE kings[1]

parseCastling(gameState, san) ==
    LET kingTile == findKing(gameState)
        dx == IF san = <<"O", "-", "O">> THEN 2 ELSE 0 - 2
    IN  IF kingTile = Null THEN [ok |-> FALSE, error |-> "King not found for castling"]
        ELSE [ok |-> TRUE,
              move |-> Move(kingTile.x, kingTile.y, kingTile.x + dx, kingTile.y, None)]

\* ChessNotation.parseMove for a string of characters: steps 1 and 2, then the steps
\* of parseMove above on the groups
parseSan(gameState, san) ==
    IF cleanSan(san) = <<"O", "-", "O">> \/ cleanSan(san) = <<"O", "-", "O", "-", "O">>
    THEN parseCastling(gameState, cleanSan(san))
    ELSE IF ~moveRegex(cleanSan(san)).ok
    THEN [ok |-> FALSE, error |-> "Invalid SAN format"]
    ELSE parseMove(gameState, moveRegex(cleanSan(san)))

\* the back rank of the standard starting position
backRank == <<Rook, Knight, Bishop, Queen, King, Bishop, Knight, Rook>>

\* the board after setupRow(0, 2, backRank), setupRow(1, 2, pawns),
\* setupRow(6, 1, pawns) and setupRow(7, 1, backRank), each a setTile per file, on
\* a new 8 x 8 board: the byte of every cell
StandardBoard ==
    [width |-> 8, height |-> 8,
     tiles |-> [i \in 0..63 |->
                   CASE i \div 8 = 0 -> Pack(backRank[(i % 8) + 1], 2)
                     [] i \div 8 = 1 -> Pack(Pawn, 2)
                     [] i \div 8 = 6 -> Pack(Pawn, 1)
                     [] i \div 8 = 7 -> Pack(backRank[(i % 8) + 1], 1)
                     [] OTHER -> EmptySquare]]

\* the moves of the basic game example
BasicGame == << <<"e", "4">>, <<"e", "5">>, <<"N", "f", "3">>, <<"N", "c", "6">>,
               <<"B", "b", "5">> >>

\* the moves of the game Anderssen - Kieseritzky, 1851
ImmortalGame ==
    << <<"e", "4">>, <<"e", "5">>,
       <<"f", "4">>, <<"e", "x", "f", "4">>,
       <<"B", "c", "4">>, <<"Q", "h", "4", "+">>,
       <<"K", "f", "1">>, <<"b", "5">>,
       <<"B", "x", "b", "5">>, <<"N", "f", "6">>,
       <<"N", "f", "3">>, <<"Q", "h", "6">>,
       <<"d", "3">>, <<"N", "h", "5">>,
       <<"N", "h", "4">>, <<"Q", "g", "5">>,
       <<"N", "f", "5">>, <<"c", "6">>,
       <<"g", "4">>, <<"N", "f", "6">>,
       <<"R", "g", "1">>, <<"c", "x", "b", "5">>,
       <<"h", "4">>, <<"Q", "g", "6">>,
       <<"h", "5">>, <<"Q", "g", "5">>,
       <<"Q", "f", "3">>, <<"N", "g", "8">>,
       <<"B", "x", "f", "4">>, <<"Q", "f", "6">>,
       <<"N", "c", "3">>, <<"B", "c", "5">>,
       <<"N", "d", "5">>, <<"Q", "x", "b", "2">>,
       <<"B", "d", "6">>, <<"B", "x", "g", "1">>,
       <<"e", "5">>, <<"Q", "x", "a", "1", "+">>,
       <<"K", "e", "2">>, <<"N", "a", "6">>,
       <<"N", "x", "g", "7", "+">>, <<"K", "d", "8">>,
       <<"Q", "f", "6", "+">>, <<"N", "x", "f", "6">>,
       <<"B", "e", "7", "#">> >>

\* the teams of the basic game example
BasicTeams == << [team_identifier |-> 1, player_identifiers |-> <<1>>],
                 [team_identifier |-> 2, player_identifiers |-> <<2>>] >>

\* the state either program starts from: the example's from newGame, with its teams
\* and with or without rights set afterwards; the test's built by hand, with no teams
InitScript ==
    \E teams \in {BasicTeams, <<>>} :
        \/ Start(StandardBoard, 0, <<1, 2>>, teams, <<>>)
        \/ Start(StandardBoard, 0, <<1, 2>>, teams, [o \in {1, 2} |-> FullRights])

\* the list of moves of the program that started the game
moves == IF states[1].teams = <<>> THEN ImmortalGame ELSE BasicGame

\* one turn of the loop over moves: parseMove, then applyMove; the test rethrows an
\* error, which ends its loop, and the example catches it and goes on
PlaySan ==
    /\ cur # 0
    /\ last.op = "error" => states[1].teams # <<>>
    /\ last.n < Len(moves)
    /\ LET san == moves[last.n + 1]
           parsed == parseSan(Current, san)
       IN  IF parsed.ok
           THEN Apply(parsed.move, TRUE)
           ELSE /\ last' = [op |-> "error", n |-> last.n + 1, san |-> san,
                            error |-> parsed.error]
                /\ UNCHANGED <<boards, maps, lists, states, cur, origin, app>>

\* the characters of Number.toString() and of String.fromCharCode('a' + x)
DigitChars == <<"0", "1", "2", "3", "4", "5", "6", "7", "8", "9">>

LetterChars == <<"a", "b", "c", "d", "e", "f", "g", "h", "i", "j", "k", "l", "m">>

RECURSIVE toString(_)
\* the decimal digits of n >= 0, a string being the sequence of its characters
toString(n) ==
    IF n < 10 THEN <<DigitChars[n + 1]>>
    ELSE toString(n \div 10) \o <<DigitChars[(n % 10) + 1]>>

toUpperCase(c) ==
    CASE c = "p" -> "P" [] c = "n" -> "N" [] c = "b" -> "B" [] c = "r" -> "R"
      [] c = "q" -> "Q" [] c = "k" -> "K" [] OTHER -> c

\* the letter of the piece with the owner ignored
pieceToCharLower(piece, owner) ==
    CASE piece = Pawn -> <<"p">> [] piece = Knight -> <<"n">>
      [] piece = Bishop -> <<"b">> [] piece = Rook -> <<"r">>
      [] piece = Queen -> <<"q">> [] piece = King -> <<"k">>
      [] OTHER -> <<>>

\* charMap[piece] ?? '', in upper case for owner 1
pieceToChar(piece, owner) ==
    LET c == CASE piece = Pawn -> <<"p">> [] piece = Knight -> <<"n">>
               [] piece = Bishop -> <<"b">> [] piece = Rook -> <<"r">>
               [] piece = Queen -> <<"q">> [] piece = King -> <<"k">>
               [] OTHER -> <<>>
    IN  IF owner = 1 THEN [i \in 1..Len(c) |-> toUpperCase(c[i])] ELSE c

RECURSIVE fenRow(_, _, _, _, _)
\* the inner loop of toFEN from column x on, and the flush after it
fenRow(board, y, x, row, emptyCount) ==
    IF x >= board.width
    THEN IF emptyCount > 0 THEN row \o toString(emptyCount) ELSE row
    ELSE LET tile == getTile(board, x, y)
         IN  IF tile.piece = None \/ tile.piece = EmptySquare \/ tile.piece >= EnvThreshold
             THEN fenRow(board, y, x + 1, row, emptyCount + 1)
             ELSE fenRow(board, y, x + 1,
                         (IF emptyCount > 0 THEN row \o toString(emptyCount) ELSE row)
                             \o pieceToChar(tile.piece, tile.owner_identifier),
                         0)

RECURSIVE join(_, _, _)
\* rows.join(sep), from row i on
join(rows, sep, i) ==
    IF i > Len(rows) THEN <<>>
    ELSE IF i = Len(rows) THEN rows[i]
    ELSE rows[i] \o <<sep>> \o join(rows, sep, i + 1)

activeColor(gameState) ==
    IF gameState.turn < Len(gameState.participants)
       /\ gameState.participants[gameState.turn + 1] = 1
    THEN <<"w">> ELSE <<"b">>

\* castlingRights.get(owner)?.kingSide or ?.queenSide
rightOf(gameState, owner, side) ==
    /\ MapHas(gameState.castlingRights, owner)
    /\ IF side = "kingSide" THEN gameState.castlingRights[owner].kingSide
                            ELSE gameState.castlingRights[owner].queenSide

fenCastling(gameState) ==
    LET castling == (IF rightOf(gameState, 1, "kingSide") THEN <<"K">> ELSE <<>>)
                    \o (IF rightOf(gameState, 1, "queenSide") THEN <<"Q">> ELSE <<>>)
                    \o (IF rightOf(gameState, 2, "kingSide") THEN <<"k">> ELSE <<>>)
                    \o (IF rightOf(gameState, 2, "queenSide") THEN <<"q">> ELSE <<>>)
    IN  IF castling = <<>> THEN <<"-">> ELSE castling

fenEnPassant(gameState) ==
    IF gameState.enPassantTarget # Null
    THEN <<LetterChars[gameState.enPassantTarget[1].x + 1]>>
         \o toString(gameState.board.height - gameState.enPassantTarget[1].y)
    ELSE <<"-">>

fullmove(gameState) == (Len(gameState.moveHistory) \div 2) + 1

\* ChessEngine.toFEN: the string as the sequence of its characters
toFEN(gameState) ==
    LET board == gameState.board
        rows == [r \in 1..board.height |-> fenRow(board, r - 1, 0, <<>>, 0)]
    IN  join(rows, "/", 1) \o <<" ">> \o activeColor(gameState) \o <<" ">>
        \o fenCastling(gameState) \o <<" ">> \o fenEnPassant(gameState) \o <<" ">>
        \o toString(0) \o <<" ">> \o toString(fullmove(gameState))

\* the position of the test: two kings on an 8 x 8 board
KingsBoard == place(ChessBoard(8, 8), << <<4, 7, King, 1>>, <<4, 0, King, 2>> >>)

\* 11 x 2 with environmental tiles, three owners and a run of ten empty squares
WideBoard ==
    setTile(place(ChessBoard(11, 2), << <<0, 0, Pawn, 2>>, <<2, 0, Knight, 3>>,
                                        <<10, 0, Bishop, 1>>, <<0, 1, Rook, 1>> >>),
            1, 0, Impassable, 0)

InitFen ==
    \E turn \in 0..MaxTurn :
        \/ Start(KingsBoard, turn, <<1, 2>>, <<>>, <<>>)
        \/ Start(WideBoard, turn, <<1, 2, 3>>, <<>>, [o \in {1, 2} |-> FullRights])
        \/ Start(WideBoard, turn, <<2, 1>>, <<>>,
                 [o \in {1} |-> [kingSide |-> FALSE, queenSide |-> TRUE]])

\* ChessEngine.toFEN(gameState) on the current state
ToFEN ==
    /\ cur # 0
    /\ last.op # "toFEN"
    /\ last' = [op |-> "toFEN", n |-> last.n, fen |-> toFEN(Current)]
    /\ UNCHANGED <<boards, maps, lists, states, cur, origin, app>>

toLowerCase(c) ==
    CASE c = "Q" -> "q" [] c = "R" -> "r" [] c = "B" -> "b" [] c = "N" -> "n"
      [] c = "K" -> "k" [] c = "O" -> "o" [] c = "U" -> "u"
      [] OTHER -> c

\* promoMap[promoChar], None standing for undefined
promoMap(promoChar) ==
    CASE promoChar = "q" -> Queen [] promoChar = "r" -> Rook
      [] promoChar = "b" -> Bishop [] promoChar = "n" -> Knight [] OTHER -> None

\* ChessEngine.uciToMove, the string being the sequence of its characters
uciToMove(uci) ==
    IF Len(uci) < 4 THEN [ok |-> FALSE, error |-> "Invalid UCI move"]
    ELSE LET fromFile == charCode(uci[1]) - charCode("a")
             toFile == charCode(uci[3]) - charCode("a")
             fromY == eightMinus(parseInt(uci[2]))
             toY == eightMinus(parseInt(uci[4]))
             promotion == IF Len(uci) >= 5 THEN promoMap(toLowerCase(uci[5])) ELSE None
         IN  [ok |-> TRUE, move |-> Move(fromFile, fromY, toFile, toY, promotion)]

\* the characters a move string is written with here
UciChars == {"a", "h", "2", "7", "q", "n"}

\* a caller has a move string, of whatever length
InitUci ==
    /\ boards = <<>>
    /\ maps = <<>>
    /\ lists = <<>>
    /\ states = <<>>
    /\ cur = 0
    /\ app = NoApp
    /\ origin = <<>>
    /\ \E uci \in SeqUpTo(UciChars, MaxUciLen) : last = [op |-> "string", n |-> 0, uci |-> uci]

\* ChessEngine.uciToMove(uci)
UciToMove ==
    /\ last.op = "string"
    /\ last' = [op |-> "uciToMove", n |-> last.n + 1, uci |-> last.uci,
                result |-> uciToMove(last.uci)]
    /\ UNCHANGED <<boards, maps, lists, states, cur, origin, app>>

\* the members of the teams in the opposite team order
participantsReversed(teams) ==
    LET n == Len(teams)
        RECURSIVE from(_)
        from(i) == IF i < 1 THEN <<>> ELSE teams[i].player_identifiers \o from(i - 1)
    IN  from(n)

\* teams.flatMap(team => team.player_identifiers)
participantsOf(teams) ==
    LET RECURSIVE from(_)
        from(i) == IF i > Len(teams) THEN <<>>
                   ELSE teams[i].player_identifiers \o from(i + 1)
    IN  from(1)

\* ChessEngine.newGame(board, teams) for the board object bref: the heaps after the
\* call and the reference of the returned state
newGame(H, bref, teams) ==
    LET returned == [board |-> bref, turn |-> 0, participants |-> participantsOf(teams),
                     teams |-> teams, castlingRights |-> Len(H.maps) + 1,
                     enPassantTarget |-> Null, moveHistory |-> Len(H.lists) + 1]
    IN  [boards |-> H.boards,
         maps |-> Append(H.maps, <<>>),
         lists |-> Append(H.lists, <<>>),
         states |-> Append(H.states, returned),
         result |-> Len(H.states) + 1]

\* 5 x 2: kings of owners 1 and 2 with a rook each; with the right, the king of
\* owner 1 may castle from (0, 1) to (2, 1)
NewBoard ==
    place(ChessBoard(5, 2), << <<0, 1, King, 1>>, <<4, 1, Rook, 1>>, <<4, 0, King, 2>>,
                               <<3, 0, Rook, 2>> >>)

\* a caller has built a board and no game yet
InitNew ==
    /\ boards = <<NewBoard>>
    /\ maps = <<>>
    /\ lists = <<>>
    /\ states = <<>>
    /\ cur = 0
    /\ app = NoApp
    /\ origin = <<>>
    /\ last = [op |-> "new", n |-> 0]

\* the team lists a game is started with
TeamLists ==
    { <<>>,
      << [team_identifier |-> 1, player_identifiers |-> <<1>>],
         [team_identifier |-> 2, player_identifiers |-> <<2>>] >>,
      << [team_identifier |-> 1, player_identifiers |-> <<2, 1>>] >>,
      TeamList }

\* state = ChessEngine.newGame(board, teams)
NewGame ==
    /\ cur = 0
    /\ \E teams \in TeamLists :
          LET r == newGame(Heaps, 1, teams)
          IN  /\ boards' = r.boards
              /\ maps' = r.maps
              /\ lists' = r.lists
              /\ states' = r.states
              /\ cur' = r.result
              /\ origin' = Append(origin, [src |-> 0, move |-> Move(0, 0, 0, 0, None),
                                            valid |-> FALSE, before |-> <<>>])
              /\ last' = [op |-> "newGame", n |-> 0, teams |-> teams]
              /\ app' = app

\* state.castlingRights.set(owner, rights) by the caller, right after newGame
SetRights ==
    /\ cur # 0
    /\ last.op = "newGame"
    /\ \E owner \in {1, 2} :
          /\ maps' = [maps EXCEPT ![states[cur].castlingRights] =
                                      MapSet(@, owner, FullRights)]
          /\ last' = [op |-> "setRights", n |-> last.n]
    /\ UNCHANGED <<boards, lists, states, cur, origin, app>>

\* applyMove for any two squares, by a caller whose game has participants
ForceAnyMove ==
    /\ cur # 0
    /\ Len(states[cur].participants) > 0
    /\ ForceMove

\* 7 x 2: the king of owner 1 between its two rooks, and two rooks and a pawn of
\* owner 2, who has no king
KingRookBoard ==
    place(ChessBoard(7, 2), << <<0, 1, Rook, 1>>, <<3, 1, King, 1>>, <<6, 1, Rook, 1>>,
                               <<0, 0, Rook, 2>>, <<6, 0, Rook, 2>>, <<3, 0, Pawn, 2>> >>)

InitKingRook ==
    \E turn \in {0, 1} :
    \E rights \in {[o \in {1, 2} |-> FullRights],
                   [o \in {2} |-> [kingSide |-> TRUE, queenSide |-> FALSE]]} :
        Start(KingRookBoard, turn, <<1, 2>>, <<>>, rights)

\* 4 x 5: a pawn of owner 1 and a pawn of owner 2 on their home ranks, on
\* neighbouring files, a rook of owner 1 the pawn of owner 2 may capture, and an
\* impassable tile beside the square ahead of the pawn of owner 1
PawnBoard ==
    setTile(place(ChessBoard(4, 5), << <<1, 3, Pawn, 1>>, <<2, 1, Pawn, 2>>,
                                       <<3, 2, Rook, 1>> >>),
            0, 2, Impassable, 0)

InitPawn == \E turn \in {0, 1} : Start(PawnBoard, turn, <<1, 2>>, <<>>, <<>>)

\* 5 x 2 with a king of owner 1 in one corner and a king of owner 2 in another, on
\* one rank or on two, and a knight of owner 2
KingsBoards ==
    { place(ChessBoard(5, 2), << <<0, 1, King, 1>>, <<4, ky, King, 2>>,
                                 <<nx, 0, Knight, 2>> >>) : ky \in {0, 1}, nx \in {0, 2} }

\* castling-rights maps: none, one participant's, both participants'
RightsMaps ==
    { f \in [{1, 2} -> {FullRights, [kingSide |-> TRUE, queenSide |-> FALSE]}] : TRUE }
        \cup { [o \in {1} |-> FullRights] }

InitStack ==
    \E board \in KingsBoards : \E turn \in {0, 1} :
        \/ Start(board, turn, <<1, 2>>, <<>>, <<>>)
        \/ \E rights \in RightsMaps : Start(board, turn, <<1, 2>>, <<>>, rights)

\* ChessEngine.isValidMove(gameState, fromX, fromY, toX, toY, ignoreTurn), for squares
\* on the board and beside it
CallIsValidMove ==
    /\ last.op = "init"
    /\ LET gameState == Current
       IN  \E fromX, toX \in (0 - 1)..gameState.board.width :
           \E fromY, toY \in 0..(gameState.board.height - 1) :
           \E ignoreTurn \in BOOLEAN :
              last' = [op |-> "isValidMove", n |-> 1,
                       call |-> <<fromX, fromY, toX, toY, ignoreTurn>>,
                       result |-> isValidMoveOnStack(gameState, fromX, fromY, toX, toY,
                                                     ignoreTurn, {})]
    /\ UNCHANGED <<boards, maps, lists, states, cur, origin, app>>

\* ChessEngine.isSquareUnderAttack(gameState, targetX, targetY, defenderOwner)
CallIsSquareUnderAttack ==
    /\ last.op = "init"
    /\ LET gameState == Current
       IN  \E target \in Squares(gameState.board) : \E defenderOwner \in {1, 2, 3} :
              last' = [op |-> "isSquareUnderAttack", n |-> 1,
                       call |-> <<target[1], target[2], defenderOwner>>,
                       result |-> isSquareUnderAttackOnStack(gameState, target[1],
                                                             target[2], defenderOwner)]
    /\ UNCHANGED <<boards, maps, lists, states, cur, origin, app>>

(***************************************************************************)
(* Square names: ChessBoard's algebraic lookup and ChessNotation.moveToSAN *)
(***************************************************************************)
\* ChessBoard.getTileByAlgebraicCoordinates(file, rank)
getTileByAlgebraicCoordinates(b, file, rank) ==
    getTile(b, charCode(file) - charCode("a"), b.height - rank)

\* `${n}` for a number of either sign
numberToString(n) == IF n < 0 THEN <<"-">> \o toString(0 - n) ELSE toString(n)

\* files[i] ?? '?'
fileOf(i) ==
    LET files == <<"a", "b", "c", "d", "e", "f", "g", "h">>
    IN  IF i \in 0..7 THEN files[i + 1] ELSE "?"

\* pieceChars[piece], the empty string standing for undefined
pieceChars(piece) ==
    CASE piece = Knight -> <<"N">> [] piece = Bishop -> <<"B">> [] piece = Rook -> <<"R">>
      [] piece = Queen -> <<"Q">> [] piece = King -> <<"K">> [] OTHER -> <<>>

\* ChessNotation.moveToSAN(move, gameState): the string as the sequence of its characters
moveToSAN(move, gameState) ==
    LET board == gameState.board
        piece == getTile(board, move.fromX, move.fromY).piece
        targetTile == getTile(board, move.toX, move.toY)
        toFile == fileOf(move.toX)
        toRank == 8 - move.toY
        fromFile == fileOf(move.fromX)
        piecePrefix == pieceChars(piece)
        isCapture == targetTile.piece # None /\ targetTile.piece # EmptySquare
        captureStr == IF isCapture THEN <<"x">> ELSE <<>>
        promoStr == IF move.promotion # None
                    THEN <<"=">> \o (IF pieceChars(move.promotion) # <<>>
                                     THEN pieceChars(move.promotion) ELSE <<"Q">>)
                    ELSE <<>>
    IN  IF piece = King /\ Abs(move.toX - move.fromX) > 1
        THEN (IF move.toX > move.fromX THEN <<"O", "-", "O">>
                                       ELSE <<"O", "-", "O", "-", "O">>)
        ELSE IF piece = Pawn /\ isCapture
        THEN <<fromFile, "x", toFile>> \o numberToString(toRank) \o promoStr
        ELSE piecePrefix \o captureStr \o <<toFile>> \o numberToString(toRank) \o promoStr

(***************************************************************************)
(* GameController (src/app/game-controller.ts) and its subclasses.  The    *)
(* object's fields history and initialGameState, and the fields of the     *)
(* subclass, are the record `app`; this.gameState is `cur`.  A world W is  *)
(* the heaps, the fields and this.gameState during one handler, with the   *)
(* applyMove calls the handler has made (applied) and the result of the    *)
(* last applyMove(san) (ok).                                               *)
(***************************************************************************)
\* a command as the sequence of its characters
Chars(s) ==
    CASE s = "undo" -> <<"u", "n", "d", "o">>
      [] s = "u" -> <<"u">>
      [] s = "restart" -> <<"r", "e", "s", "t", "a", "r", "t">>
      [] s = "reset" -> <<"r", "e", "s", "e", "t">>
      [] s = "help" -> <<"h", "e", "l", "p">>
      [] s = "next" -> <<"n", "e", "x", "t">>
      [] s = "n" -> <<"n">>
      [] s = "prev" -> <<"p", "r", "e", "v">>
      [] s = "p" -> <<"p">>
      [] s = "back" -> <<"b", "a", "c", "k">>
      [] s = "play" -> <<"p", "l", "a", "y">>
      [] s = "start" -> <<"s", "t", "a", "r", "t">>
      [] s = "pause" -> <<"p", "a", "u", "s", "e">>
      [] s = "stop" -> <<"s", "t", "o", "p">>

\* cmd.toLowerCase().trim()
lowerTrim(cmd) ==
    LET lower == [i \in 1..Len(cmd) |-> toLowerCase(cmd[i])]
        inked == {i \in 1..Len(lower) : lower[i] # " "}
    IN  IF inked = {} THEN <<>>
        ELSE SubSeq(lower, CHOOSE i \in inked : \A j \in inked : i <= j,
                           CHOOSE i \in inked : \A j \in inked : i >= j)

World == [H |-> Heaps, gameState |-> cur, app |-> app, applied |-> <<>>, ok |-> TRUE]

\* this.gameState read through its references
gameStateOf(W) == Deref(W.H.boards, W.H.maps, W.H.lists, W.H.states[W.gameState])

\* newState = ChessEngine.applyMove(this.gameState, move); this.gameState = newState;
\* this.history.push(newState)
pushMove(W, move) ==
    LET r == applyMove(W.H, W.gameState, move)
    IN  [H |-> [boards |-> r.boards, maps |-> r.maps, lists |-> r.lists,
                states |-> r.states],
         gameState |-> r.result,
         app |-> [W.app EXCEPT !.history = Append(@, r.result)],
         applied |-> Append(W.applied, [src |-> W.gameState, move |-> move]),
         ok |-> TRUE]

\* GameController.applyMove(san): ok is the boolean it returns
controllerApplyMove(W, san) ==
    LET parsed == parseSan(gameStateOf(W), san)
    IN  IF parsed.ok THEN pushMove(W, parsed.move) ELSE [W EXCEPT !.ok = FALSE]

\* an undo that pops the history and leaves this.gameState as it is
undoPopOnly(W) ==
    IF Len(W.app.history) <= 1 THEN W
    ELSE [W EXCEPT !.app.history = SubSeq(@, 1, Len(@) - 1)]

\* GameController.undo()
undo(W) ==
    IF Len(W.app.history) <= 1 THEN W
    ELSE LET popped == SubSeq(W.app.history, 1, Len(W.app.history) - 1)
             previousState == popped[Len(popped)]
         IN  [W EXCEPT !.app.history = popped, !.gameState = previousState]

\* GameController.resetGame()
resetGame(W) ==
    [W EXCEPT !.app.history = <<W.app.initialGameState>>,
              !.gameState = W.app.initialGameState]

\* InteractiveGame.handleCommand(cmd)
interactiveHandleCommand(W, cmd) == controllerApplyMove(W, cmd)

\* the variables after a handler that ends in the world W2; origin gets an entry for
\* each state applyMove returned
Commit(W2, entry) ==
    /\ boards' = W2.H.boards
    /\ maps' = W2.H.maps
    /\ lists' = W2.H.lists
    /\ states' = W2.H.states
    /\ cur' = W2.gameState
    /\ app' = W2.app
    /\ origin' = origin \o
          [k \in 1..Len(W2.applied) |->
              LET before == Deref(W2.H.boards, W2.H.maps, W2.H.lists,
                                  W2.H.states[W2.applied[k].src])
                  move == W2.applied[k].move
              IN  [src |-> W2.applied[k].src, move |-> move, before |-> before,
                   valid |-> isValidMove(before, move.fromX, move.fromY,
                                         move.toX, move.toY, FALSE)]]
    /\ last' = entry

\* ChessTui.createStandardGame() in the constructor, then GameController's constructor
Construct(fields) ==
    LET r == newGame([boards |-> <<StandardBoard>>, maps |-> <<>>, lists |-> <<>>,
                      states |-> <<>>], 1, BasicTeams)
    IN  /\ boards = r.boards
        /\ maps = r.maps
        /\ lists = r.lists
        /\ states = r.states
        /\ cur = r.result
        /\ origin = <<[src |-> 0, move |-> Move(0, 0, 0, 0, None), valid |-> FALSE,
                       before |-> <<>>]>>
        /\ last = [op |-> "init", n |-> 0]
        /\ app = fields @@ [history |-> <<r.result>>, initialGameState |-> r.result]

(***************************************************************************)
(* GameReplay (src/app/game-replay.ts): moves, currentIndex, isPlaying and *)
(* playInterval (FALSE for null, TRUE for a running interval timer).       *)
(***************************************************************************)
stopAutoPlay(W) ==
    IF ~W.app.isPlaying THEN W
    ELSE [W EXCEPT !.app.isPlaying = FALSE, !.app.playInterval = FALSE]

startAutoPlay(W) ==
    IF W.app.isPlaying THEN W
    ELSE [W EXCEPT !.app.isPlaying = TRUE, !.app.playInterval = TRUE]

stepForward(W) ==
    IF W.app.currentIndex >= Len(W.app.moves) THEN stopAutoPlay(W)
    ELSE LET san == W.app.moves[W.app.currentIndex + 1]
             r == controllerApplyMove(W, san)
         IN  IF san = <<>> THEN W
             ELSE IF r.ok THEN [r EXCEPT !.app.currentIndex = @ + 1]
             ELSE stopAutoPlay(r)

stepBackward(W) ==
    IF W.app.currentIndex <= 0 THEN W
    ELSE [undo(W) EXCEPT !.app.currentIndex = @ - 1]

\* GameReplay.handleCommand(cmd)
replayHandleCommand(W, cmd) ==
    LET command == lowerTrim(cmd)
    IN  IF command \in {Chars("next"), Chars("n")} THEN stepForward(stopAutoPlay(W))
        ELSE IF command \in {Chars("prev"), Chars("p"), Chars("back")}
        THEN stepBackward(stopAutoPlay(W))
        ELSE IF command \in {Chars("play"), Chars("start")} THEN startAutoPlay(W)
        ELSE IF command \in {Chars("pause"), Chars("stop")} THEN stopAutoPlay(W)
        ELSE W

(***************************************************************************)
(* AIGameDemo (demo/ai-game.demo.ts).  pending holds, for each call of     *)
(* ai.getBestMove that has not settled, the FEN it was given and the state *)
(* the FEN was computed from.                                              *)
(***************************************************************************)
\* AIGameDemo.makeAIMove() up to its await: the FEN of this.gameState goes to the AI
makeAIMove(W) ==
    [W EXCEPT !.app.pending = Append(@, [fen |-> toFEN(gameStateOf(W)),
                                         sent |-> W.gameState])]

\* AIGameDemo.handleCommand(cmd)
aiHandleCommand(W, cmd) ==
    LET r == controllerApplyMove(W, cmd)
    IN  IF r.ok THEN makeAIMove(r) ELSE r

\* AIGameDemo.makeAIMove() after its await, when the AI answered uciMove to the k-th
\* pending call; a throw of uciToMove is caught and logged
aiMoveArrives(W, k, uciMove) ==
    LET rest == [W EXCEPT !.app.pending =
                    SubSeq(@, 1, k - 1) \o SubSeq(@, k + 1, Len(@))]
        parsed == uciToMove(uciMove)
    IN  IF parsed.ok THEN pushMove(rest, parsed.move) ELSE [rest EXCEPT !.ok = FALSE]

\* the subclass's handleCommand(cmd)
handleCommand(W, cmd) ==
    CASE W.app.kind = "InteractiveGame" -> interactiveHandleCommand(W, cmd)
      [] W.app.kind = "GameReplay" -> replayHandleCommand(W, cmd)
      [] W.app.kind = "AIGameDemo" -> aiHandleCommand(W, cmd)

\* GameController.onCommand(cmd)
onCommand(W, cmd) ==
    LET command == lowerTrim(cmd)
    IN  IF command = Chars("help") THEN W
        ELSE IF command \in {Chars("undo"), Chars("u")} THEN undo(W)
        ELSE IF command \in {Chars("restart"), Chars("reset")} THEN resetGame(W)
        ELSE handleCommand(W, cmd)

\* the moves a player types: pawn and knight moves, a capture, and castling to
\* either side
TypedMoves ==
    { <<"e", "4">>, <<"e", "5">>, <<"N", "f", "3">>, <<"d", "5">>, <<"e", "x", "d", "5">>,
      <<"O", "-", "O">>, <<"O", "-", "O", "-", "O">> }

ControllerCommands == {Chars("undo"), <<"U">>, Chars("restart"), Chars("help")}

InitInteractive == Construct([kind |-> "InteractiveGame"])

\* the submit handler of the input box: onCommand(cmd) for a line the player typed
Submit ==
    /\ last.n < MaxCommands
    /\ \E cmd \in TypedMoves \cup ControllerCommands :
          Commit(onCommand(World, cmd), [op |-> "command", n |-> last.n + 1, cmd |-> cmd])

\* the replay of the README
ReplayMoves == << <<"e", "4">>, <<"e", "5">>, <<"N", "f", "3">>, <<"N", "c", "6">>,
                  <<"B", "b", "5">> >>

InitReplay ==
    Construct([kind |-> "GameReplay", moves |-> ReplayMoves, currentIndex |-> 0,
               isPlaying |-> FALSE, playInterval |-> FALSE])

ReplayCommands ==
    {Chars("next"), Chars("prev"), Chars("play"), Chars("pause"), Chars("undo"),
     Chars("restart")}

\* a line typed into the replay
ReplaySubmit ==
    /\ last.n < MaxReplayCommands
    /\ \E cmd \in ReplayCommands :
          Commit(onCommand(World, cmd), [op |-> "command", n |-> last.n + 1, cmd |-> cmd])

\* the interval timer of startAutoPlay fires: stepForward()
ReplayTick ==
    /\ last.n < MaxReplayCommands
    /\ app.playInterval
    /\ Commit(stepForward(World), [op |-> "tick", n |-> last.n + 1])

\* 5 x 4 for three participants, 2 and 1 in one team: the king of owner 1 with a rook
\* of owner 2 on its rank, a pawn of owner 2 on its home rank with a pawn of owner 1
\* beside the square it double-steps to, and a pawn of owner 3
AlliesBoard ==
    place(ChessBoard(5, 4), << <<0, 0, King, 1>>, <<4, 0, Rook, 2>>, <<2, 1, Pawn, 2>>,
                               <<3, 3, Pawn, 1>>, <<4, 1, Pawn, 3>> >>)

AlliesTeams == << [team_identifier |-> 1, player_identifiers |-> <<3>>],
                  [team_identifier |-> 2, player_identifiers |-> <<2, 1>>] >>

InitAllies ==
    \E turn \in 0..2 :
        Start(AlliesBoard, turn, participantsOf(AlliesTeams), AlliesTeams,
              [o \in {1, 2} |-> FullRights])

\* 8 x 8: pawns of owner 1 on c5 and e5 and a pawn of owner 2 on d7, which may
\* double-step between them; a pawn of owner 1 on a7 with a knight of owner 2 on b8;
\* a pawn of owner 1 on h2 and a pawn of owner 2 on g3
PawnsBoard ==
    place(ChessBoard(8, 8), << <<2, 3, Pawn, 1>>, <<4, 3, Pawn, 1>>, <<3, 1, Pawn, 2>>,
                               <<0, 1, Pawn, 1>>, <<1, 0, Knight, 2>>,
                               <<7, 6, Pawn, 1>>, <<6, 5, Pawn, 2>> >>)

InitPawns ==
    \E turn \in {0, 1} :
        Start(PawnsBoard, turn, <<1, 2>>, <<>>, [o \in {1, 2} |-> FullRights])

InitAi == Construct([kind |-> "AIGameDemo", pending |-> <<>>])

\* a line the player types while playing the AI
AiSubmit ==
    /\ last.n < MaxCommands
    /\ \E cmd \in TypedMoves \cup ControllerCommands :
          Commit(onCommand(World, cmd), [op |-> "command", n |-> last.n + 1, cmd |-> cmd])

\* the move strings the AI answers with
EngineMoves ==
    { <<"e", "7", "e", "5">>, <<"d", "7", "d", "5">>, <<"g", "8", "f", "6">>,
      <<"e", "2", "e", "4">>, <<"g", "1", "f", "3">> }

\* the move search, given a FEN, answers with a move that is legal in that position
Answers(request) ==
    { uci \in EngineMoves :
         LET m == uciToMove(uci).move
         IN  isValidMove(Deref(boards, maps, lists, states[request.sent]), m.fromX, m.fromY, m.toX, m.toY, FALSE) }

\* the promise of one pending ai.getBestMove(fen) resolves: the rest of makeAIMove
AiReply ==
    /\ last.n < MaxCommands
    /\ \E k \in 1..Len(app.pending) : \E uci \in Answers(app.pending[k]) :
          Commit(aiMoveArrives(World, k, uci),
                 [op |-> "aiReply", n |-> last.n + 1, uci |-> uci,
                  fen |-> app.pending[k].fen, sent |-> app.pending[k].sent,
                  appliedTo |-> cur])

\* the promise of one pending ai.getBestMove(fen) rejects: makeAIMove logs the error
AiError ==
    /\ last.n < MaxCommands
    /\ \E k \in 1..Len(app.pending) :
          /\ app' = [app EXCEPT !.pending =
                        SubSeq(@, 1, k - 1) \o SubSeq(@, k + 1, Len(@))]
          /\ last' = [op |-> "aiError", n |-> last.n + 1]
    /\ UNCHANGED <<boards, maps, lists, states, cur, origin>>

(***************************************************************************)
(* StockfishEngine (src/persona/stockfish-engine.ts).  app holds the       *)
(* fields worker (TRUE for a Worker object), isReady and messageHandler,   *)
(* the promises of the calls made (calls), the messages posted to the      *)
(* worker and not yet read by it (toWorker) and the lines the worker has   *)
(* sent that onmessage has not yet handled (fromWorker).  A message and a  *)
(* line carry the number of the call whose command they belong to.  A      *)
(* handler is the closure assigned to messageHandler: "none" for           *)
(* () => { }, "search" for the one getBestMove installs, "wait" for the    *)
(* one sendCommandAndWait installs, with its waitFor and originalHandler.  *)
(***************************************************************************)
NoHandler == [type |-> "none", call |-> 0]

\* StockfishEngine.postMessage(message)
postMessage(E, message, c) ==
    IF E.worker THEN [E EXCEPT !.toWorker = Append(@, [cmd |-> message, call |-> c])]
    ELSE E

\* StockfishEngine.sendCommandAndWait(command, waitFor) in call c
sendCommandAndWait(E, c, command, waitFor) ==
    postMessage([E EXCEPT !.messageHandler =
                     [type |-> "wait", call |-> c, waitFor |-> waitFor,
                      originalHandler |-> E.messageHandler]],
                command, c)

\* resolve or reject of the promise of call c: a settled promise stays as it is
settle(E, c, status, line) ==
    IF E.calls[c].status = "pending"
    THEN [E EXCEPT !.calls[c].status = status, !.calls[c].bestMove = line]
    ELSE E

newCall(E, fn, timer) ==
    [E EXCEPT !.calls = Append(@, [fn |-> fn, status |-> "pending", timer |-> timer,
                                   stage |-> 1, bestMove |-> 0])]

\* StockfishEngine.start(), up to its first await
start(E) ==
    LET c == Len(E.calls) + 1
        called == newCall(E, "start", FALSE)
    IN  IF E.worker THEN settle(called, c, "resolved", 0)
        ELSE sendCommandAndWait([called EXCEPT !.worker = TRUE], c, "uci", "uciok")

\* StockfishEngine.setOptions(options) with both options given, up to its await
setOptions(E) ==
    LET c == Len(E.calls) + 1
        called == newCall(E, "setOptions", FALSE)
    IN  IF ~E.worker THEN settle(called, c, "resolved", 0)
        ELSE sendCommandAndWait(postMessage(postMessage(called, "setoption", c),
                                            "setoption", c),
                                c, "isready", "readyok")

\* StockfishEngine.getBestMove(options): the timeout is set, the handler installed
\* and the search command posted
getBestMove(E) ==
    LET c == Len(E.calls) + 1
        called == newCall(E, "getBestMove", TRUE)
    IN  postMessage([called EXCEPT !.messageHandler = [type |-> "search", call |-> c]],
                    "go", c)

\* the callback of the setTimeout in getBestMove of call c
searchTimeout(E, c) ==
    settle([E EXCEPT !.messageHandler = NoHandler, !.calls[c].timer = FALSE],
           c, "rejected", 0)

\* the code after an await in call c, run when the awaited promise has resolved
continuation(E, c) ==
    IF E.calls[c].fn = "start" /\ E.calls[c].stage = 1
    THEN sendCommandAndWait([E EXCEPT !.calls[c].stage = 2], c, "isready", "readyok")
    ELSE IF E.calls[c].fn = "start"
    THEN settle([E EXCEPT !.isReady = TRUE], c, "resolved", 0)
    ELSE settle(E, c, "resolved", 0)

\* StockfishEngine.handleMessage(data) for one line: this.messageHandler(trimmed)
handleMessage(E, line) ==
    LET h == E.messageHandler
    IN  IF h.type = "search"
        THEN IF line.text = "bestmove"
             THEN settle([E EXCEPT !.calls[h.call].timer = FALSE,
                                   !.messageHandler = NoHandler],
                         h.call, "resolved", line.call)
             ELSE E
        ELSE IF h.type = "wait"
        THEN IF line.text = h.waitFor
             THEN continuation([E EXCEPT !.messageHandler = h.originalHandler], h.call)
             ELSE E
        ELSE E

\* what the engine process answers to a command it reads
reply(message) ==
    CASE message.cmd = "uci" -> <<[text |-> "uciok", call |-> message.call]>>
      [] message.cmd = "isready" -> <<[text |-> "readyok", call |-> message.call]>>
      [] message.cmd = "go" -> <<[text |-> "info", call |-> message.call],
                                 [text |-> "bestmove", call |-> message.call]>>
      [] OTHER -> <<>>

InitEngine ==
    /\ boards = <<>>
    /\ maps = <<>>
    /\ lists = <<>>
    /\ states = <<>>
    /\ cur = 0
    /\ origin = <<>>
    /\ last = [op |-> "new", n |-> 0]
    /\ app = [kind |-> "StockfishEngine", worker |-> FALSE, isReady |-> FALSE,
              messageHandler |-> NoHandler, calls |-> <<>>, toWorker |-> <<>>,
              fromWorker |-> <<>>]

\* a caller calls start(), setOptions() or getBestMove() without waiting for the
\* promises of its earlier calls
EngineCall ==
    /\ Len(app.calls) < MaxEngineCalls
    /\ \E fn \in {"start", "setOptions", "getBestMove"} :
          /\ app' = CASE fn = "start" -> start(app)
                      [] fn = "setOptions" -> setOptions(app)
                      [] fn = "getBestMove" -> getBestMove(app)
          /\ last' = [op |-> fn, n |-> last.n + 1]
    /\ UNCHANGED <<boards, maps, lists, states, cur, origin>>

\* the engine process reads the next message and writes its answer
WorkerStep ==
    /\ app.kind = "StockfishEngine"
    /\ app.toWorker # <<>>
    /\ app' = [app EXCEPT !.toWorker = Tail(@),
                          !.fromWorker = @ \o reply(Head(app.toWorker))]
    /\ last' = [op |-> "worker", n |-> last.n]
    /\ UNCHANGED <<boards, maps, lists, states, cur, origin>>

\* worker.onmessage for the next line
Deliver ==
    /\ app.kind = "StockfishEngine"
    /\ app.fromWorker # <<>>
    /\ app' = handleMessage([app EXCEPT !.fromWorker = Tail(@)], Head(app.fromWorker))
    /\ last' = [op |-> "deliver", n |-> last.n, line |-> Head(app.fromWorker),
                handler |-> [type |-> app.messageHandler.type,
                             call |-> app.messageHandler.call]]
    /\ UNCHANGED <<boards, maps, lists, states, cur, origin>>

\* the 30 s timer of the getBestMove call c fires
Timeout(c) ==
    /\ app.kind = "StockfishEngine"
    /\ c <= Len(app.calls)
    /\ app.calls[c].timer
    /\ app' = searchTimeout(app, c)
    /\ last' = [op |-> "timeout", n |-> last.n, call |-> c]
    /\ UNCHANGED <<boards, maps, lists, states, cur, origin>>

EngineTimeout == \E c \in 1..MaxEngineCalls : Timeout(c)

Init == InitGame

Next == PlayMove

Spec == Init /\ [][Next]_vars

SpecCastling == InitCastling /\ [][Next]_vars

SpecTeams == InitTeams /\ [][Next]_vars

NextUndo == PlayMove \/ Undo

SpecUndo == InitUndo /\ [][NextUndo]_vars

NextAny == ForceMove

SpecAny == InitAny /\ [][NextAny]_vars

NextClone == BoardClone \/ HeldSetTile

SpecClone == InitClone /\ [][NextClone]_vars

NextGrid == FromGrid

SpecGrid == InitGrid /\ [][NextGrid]_vars

NextSan == ParseMove

SpecSan == InitSan /\ [][NextSan]_vars

NextFen == PlayMove \/ ToFEN

SpecFen == InitFen /\ [][NextFen]_vars

NextUci == UciToMove

SpecUci == InitUci /\ [][NextUci]_vars

NextNew == NewGame \/ SetRights \/ ForceAnyMove

SpecNew == InitNew /\ [][NextNew]_vars

\* toFEN on the state the loop has reached
ShowFEN == last.op # "error" /\ ToFEN

NextStack == CallIsValidMove \/ CallIsSquareUnderAttack

SpecStack == InitStack /\ [][NextStack]_vars

SpecPawn == InitPawn /\ [][Next]_vars

NextScript == PlaySan \/ ShowFEN

SpecScript == InitScript /\ [][NextScript]_vars

NextKingRook == ForceMove

SpecKingRook == InitKingRook /\ [][NextKingRook]_vars

NextBoard == BoardSetTile

SpecBoard == InitBoard /\ [][NextBoard]_vars

SpecAllies == InitAllies /\ [][Next]_vars

SpecPawns == InitPawns /\ [][Next]_vars

NextInteractive == Submit

SpecInteractive == InitInteractive /\ [][NextInteractive]_vars

NextAi == AiSubmit \/ AiReply \/ AiError

SpecAi == InitAi /\ [][NextAi]_vars

NextEngine == EngineCall \/ WorkerStep \/ Deliver \/ EngineTimeout

\* the engine process answers, the event loop delivers its lines, and timers fire
SpecEngine ==
    /\ InitEngine /\ [][NextEngine]_vars
    /\ WF_vars(WorkerStep) /\ WF_vars(Deliver)
    /\ \A c \in 1..MaxEngineCalls : WF_vars(Timeout(c))

NextReplay == ReplaySubmit \/ ReplayTick

SpecReplay == InitReplay /\ [][NextReplay]_vars

(***************************************************************************)
(* Properties.  origin[i] records, for the state object i, the state       *)
(* object applyMove was given (src, 0 for a hand-built state), that        *)
(* state's contents at the time of the call (before), the move, and        *)
(* whether isValidMove accepted the move in it (valid).                    *)
(***************************************************************************)
State(i) == Deref(boards, maps, lists, states[i])

\* the state objects applyMove returned
Applied == {i \in 1..Len(states) : origin[i].src # 0}

Tile(gameState, x, y) == getTile(gameState.board, x, y)

\* C1: every state applyMove returns has turn (old turn + 1) mod participant count,
\* which lies in 0..count-1, whatever the move; and in a game started at turn 0 the
\* participant to move after k moves is participants[k mod count].
TurnRotation ==
    \A i \in Applied :
        LET old == origin[i].before
            new == State(i)
            count == Len(old.participants)
            k == Len(new.moveHistory)
        IN  /\ new.turn = (old.turn + 1) % count
            /\ new.turn \in 0..(count - 1)
            /\ new.participants = old.participants
            /\ State(1).turn = 0 => currentPlayer(new) = new.participants[(k % count) + 1]

\* a move isValidMove rejects, a king moved two files, was applied and took the turn
\* from the last participant of three back to the first
TurnRotationWitness ==
    \E i \in Applied :
        /\ ~origin[i].valid
        /\ Len(origin[i].before.participants) = 3
        /\ origin[i].before.turn = 2
        /\ State(i).turn = 0
        /\ Tile(origin[i].before, origin[i].move.fromX, origin[i].move.fromY).piece = King
        /\ Abs(origin[i].move.toX - origin[i].move.fromX) = 2

\* C2: applyMove leaves the state it was given as it was: board tiles, turn,
\* participants, castling rights, en-passant target and move history of every state
\* that was handed to applyMove are still what they were at the call, and applying
\* the same move to the same kept state again returns an equal state.
SourceStateUnchanged ==
    /\ \A i \in Applied : State(origin[i].src) = origin[i].before
    /\ \A i \in Applied : \A j \in Applied :
          (origin[i].src = origin[j].src /\ origin[i].move = origin[j].move)
              => State(i) = State(j)

\* after a castling move was applied, the caller went back and applied the same
\* move to the kept state a second time
SourceStateUnchangedWitness ==
    \E i \in Applied : \E j \in Applied :
        /\ i # j
        /\ origin[i].src = origin[j].src
        /\ origin[i].move = origin[j].move
        /\ Tile(origin[i].before, origin[i].move.fromX, origin[i].move.fromY).piece = King
        /\ Abs(origin[i].move.toX - origin[i].move.fromX) = 2
        /\ State(i).castlingRights # origin[i].before.castlingRights
        /\ State(i).board # origin[i].before.board

(***************************************************************************)
(* Castling safety.                                                        *)
(***************************************************************************)
\* the squares strictly between (x1, y) and (x2, y)
Between(x1, x2) == {x \in -1..64 : (x1 < x /\ x < x2) \/ (x2 < x /\ x < x1)}

\* every square strictly between (x1, y1) and (x2, y2), which lie on one line, is empty
ClearLine(board, x1, y1, x2, y2) ==
    LET n == IF Abs(x2 - x1) > Abs(y2 - y1) THEN Abs(x2 - x1) ELSE Abs(y2 - y1)
        sx == (x2 - x1) \div n
        sy == (y2 - y1) \div n
    IN  \A k \in 1..(n - 1) : IsEmptyPiece(getTile(board, x1 + k * sx, y1 + k * sy).piece)

\* the rules of chess: the piece on tile `a` could capture a king standing on (x, y)
Attacks(board, a, x, y) ==
    LET dx == x - a.x
        dy == y - a.y
        diagonal == Abs(dx) = Abs(dy) /\ dx # 0
        straight == (dx = 0) # (dy = 0)
    IN  CASE a.piece = Pawn -> Abs(dx) = 1 /\ dy = pawnDirection(a.owner_identifier)
          [] a.piece = Knight -> {Abs(dx), Abs(dy)} = {1, 2}
          [] a.piece = Bishop -> diagonal /\ ClearLine(board, a.x, a.y, x, y)
          [] a.piece = Rook -> straight /\ ClearLine(board, a.x, a.y, x, y)
          [] a.piece = Queen -> (diagonal \/ straight) /\ ClearLine(board, a.x, a.y, x, y)
          [] a.piece = King -> Abs(dx) <= 1 /\ Abs(dy) <= 1 /\ (dx # 0 \/ dy # 0)
          [] OTHER -> FALSE

\* the tiles of `gameState` holding a piece of a participant who is no teammate of owner
Opposing(gameState, owner) ==
    { getTile(gameState.board, sq[1], sq[2]) : sq \in
        { q \in Occupied(gameState.board) :
            /\ getTile(gameState.board, q[1], q[2]).piece \in PieceTypes
            /\ ~areTeammates(gameState, getTile(gameState.board, q[1], q[2]).owner_identifier,
                             owner) } }

\* the kings of the participant to move
KingsToMove(gameState) ==
    { k \in { getTile(gameState.board, sq[1], sq[2]) : sq \in Occupied(gameState.board) } :
        k.piece = King /\ k.owner_identifier = currentPlayer(gameState) }

\* king k holds the right for the side of toX, and the squares from the one next to it
\* up to and including (toX, k.y) are on the board and empty
MayCastle(gameState, k, toX) ==
    /\ ~isOutOfBounds(gameState.board, toX, k.y)
    /\ MapHas(gameState.castlingRights, k.owner_identifier)
    /\ IF toX > k.x THEN gameState.castlingRights[k.owner_identifier].kingSide
                    ELSE gameState.castlingRights[k.owner_identifier].queenSide
    /\ \A x \in Between(k.x, toX) \cup {toX} :
          IsEmptyPiece(getTile(gameState.board, x, k.y).piece)

\* C3 (as claimed): a two-file castling move of a king with the right and an empty
\* path is rejected whenever an opposing pawn, knight, bishop, rook, queen or king
\* attacks the king's square, the square it passes over or its destination.
CastlingRejectedUnderAnyAttack ==
    \A k \in KingsToMove(Current) : \A toX \in {k.x - 2, k.x + 2} :
        ( /\ MayCastle(Current, k, toX)
          /\ \E a \in Opposing(Current, k.owner_identifier) :
             \E x \in Between(k.x, toX) \cup {k.x, toX} :
                Attacks(Current.board, a, x, k.y) )
        => ~isValidMove(Current, k.x, k.y, toX, k.y, FALSE)

\* C4 (as claimed): a castling move of two or more files along the king's rank is
\* accepted only if isSquareUnderAttack answers false for the king's square, for
\* every square the king crosses and for the destination.
CastlingCrossesNoAttackedSquare ==
    \A k \in KingsToMove(Current) : \A toX \in 0..(getWidth(Current.board) - 1) :
        ( /\ Abs(toX - k.x) >= 2
          /\ isValidMove(Current, k.x, k.y, toX, k.y, FALSE) )
        => \A x \in Between(k.x, toX) \cup {k.x, toX} :
              ~isSquareUnderAttack(Current, x, k.y, k.owner_identifier)

(***************************************************************************)
(* Pawn moves, en passant, promotion.                                      *)
(***************************************************************************)
\* the tiles of `gameState` that hold a pawn
Pawns(gameState) ==
    { p \in { getTile(gameState.board, sq[1], sq[2]) : sq \in Occupied(gameState.board) } :
        p.piece = Pawn }

\* the rank a pawn of `owner` starts on, on a board of `height` rows
HomeRank(height, owner) == IF owner = 1 THEN height - 2 ELSE 1

\* the rank a pawn of `owner` promotes on
FarRank(height, owner) == IF owner = 1 THEN 0 ELSE height - 1

\* +1 or -1: the way a pawn of `owner` walks along y
Forward(owner) == IF owner = 1 THEN 0 - 1 ELSE 1

\* C5: isValidMove accepts a pawn move of two squares along its file only when it
\* goes forward, the pawn stands on its owner's home rank (height-2 for owner 1, 1
\* for the others) and both the square passed over and the destination are empty.
DoubleStepOnlyFromHomeRank ==
    \A p \in Pawns(Current) : \A toY \in {p.y - 2, p.y + 2} : \A ignoreTurn \in BOOLEAN :
        isValidMove(Current, p.x, p.y, p.x, toY, ignoreTurn)
        => /\ toY = p.y + 2 * Forward(p.owner_identifier)
           /\ p.y = HomeRank(Current.board.height, p.owner_identifier)
           /\ IsEmptyPiece(Tile(Current, p.x, p.y + Forward(p.owner_identifier)).piece)
           /\ IsEmptyPiece(Tile(Current, p.x, toY).piece)

\* a double step was played, and now a pawn of the participant to move stands off its
\* home rank with two empty squares ahead of it, and its double step is rejected
DoubleStepWitness ==
    /\ \E i \in Applied :
          /\ Tile(origin[i].before, origin[i].move.fromX, origin[i].move.fromY).piece = Pawn
          /\ Abs(origin[i].move.toY - origin[i].move.fromY) = 2
    /\ \E p \in Pawns(Current) :
          LET f == Forward(p.owner_identifier)
          IN  /\ p.owner_identifier = currentPlayer(Current)
              /\ p.y # HomeRank(Current.board.height, p.owner_identifier)
              /\ ~isOutOfBounds(Current.board, p.x, p.y + 2 * f)
              /\ IsEmptyPiece(Tile(Current, p.x, p.y + f).piece)
              /\ IsEmptyPiece(Tile(Current, p.x, p.y + 2 * f).piece)
              /\ ~isValidMove(Current, p.x, p.y, p.x, p.y + 2 * f, FALSE)

\* the move is a pawn's step of two squares along its file in `gameState`
IsDoubleStep(gameState, move) ==
    /\ Tile(gameState, move.fromX, move.fromY).piece = Pawn
    /\ move.toX = move.fromX
    /\ Abs(move.toY - move.fromY) = 2

BoardIs(new, old, changes) ==
    /\ new.width = old.width
    /\ new.height = old.height
    /\ \A sq \in Squares(old) :
          LET t == getTile(new, sq[1], sq[2])
          IN  IF sq \in DOMAIN changes
              THEN t.piece = changes[sq][1] /\ t.owner_identifier = changes[sq][2]
              ELSE t = getTile(old, sq[1], sq[2])

\* C7 (as claimed): when isValidMove accepts a pawn's diagonal move onto the empty
\* en-passant target left by the preceding double step, applyMove puts the pawn on
\* the target, empties its origin and the square of the pawn that double-stepped,
\* and changes no other tile.
EnPassantRemovesDoubleSteppedPawn ==
    \A i \in Applied :
        LET old == origin[i].before
            move == origin[i].move
            taker == Tile(old, move.fromX, move.fromY)
            n == Len(old.moveHistory)
        IN  ( /\ origin[i].valid
              /\ taker.piece = Pawn
              /\ move.promotion = None
              /\ Abs(move.toX - move.fromX) = 1
              /\ IsEmptyPiece(Tile(old, move.toX, move.toY).piece)
              /\ old.enPassantTarget = <<[x |-> move.toX, y |-> move.toY]>>
              /\ n > 0 )
            => LET stepped == old.moveHistory[n]
               IN  BoardIs(State(i).board, old.board,
                           [sq \in {<<move.toX, move.toY>>, <<move.fromX, move.fromY>>,
                                    <<stepped.toX, stepped.toY>>} |->
                               IF sq = <<move.toX, move.toY>>
                               THEN <<Pawn, taker.owner_identifier>>
                               ELSE <<EmptySquare, 0>>])

\* C8: when a pawn moves onto its far rank with a promotion piece given, the returned
\* state has that piece, with the pawn's owner, on the destination and an empty tile
\* on the origin.
PromotionReplacesPawn ==
    \A i \in Applied :
        LET old == origin[i].before
            move == origin[i].move
            pawn == Tile(old, move.fromX, move.fromY)
        IN  ( /\ origin[i].valid
              /\ pawn.piece = Pawn
              /\ move.promotion # None
              /\ move.toY = FarRank(old.board.height, pawn.owner_identifier) )
            => /\ Tile(State(i), move.toX, move.toY).piece = move.promotion
               /\ Tile(State(i), move.toX, move.toY).owner_identifier = pawn.owner_identifier
               /\ Tile(State(i), move.fromX, move.fromY).piece = EmptySquare
               /\ Tile(State(i), move.fromX, move.fromY).owner_identifier = 0

\* a pawn of owner 1 promoted to a knight by capturing, and a pawn of owner 2
\* promoted to a queen by stepping forward
PromotionWitness ==
    /\ \E i \in Applied :
          /\ Tile(origin[i].before, origin[i].move.fromX, origin[i].move.fromY).piece = Pawn
          /\ Tile(origin[i].before, origin[i].move.fromX,
                  origin[i].move.fromY).owner_identifier = 1
          /\ origin[i].move.toY = 0
          /\ origin[i].move.toX # origin[i].move.fromX
          /\ Tile(State(i), origin[i].move.toX, 0).piece = Knight
    /\ \E i \in Applied :
          /\ Tile(origin[i].before, origin[i].move.fromX, origin[i].move.fromY).piece = Pawn
          /\ Tile(origin[i].before, origin[i].move.fromX,
                  origin[i].move.fromY).owner_identifier = 2
          /\ origin[i].move.toY = origin[i].before.board.height - 1
          /\ origin[i].move.toX = origin[i].move.fromX
          /\ Tile(State(i), origin[i].move.toX, origin[i].move.toY).piece = Queen

(***************************************************************************)
(* Teams.                                                                  *)
(***************************************************************************)
\* p1 and p2 are one participant or members of one team of the team list
SameTeam(p1, p2) ==
    \/ p1 = p2
    \/ \E i \in 1..Len(TeamList) :
          {p1, p2} \subseteq { TeamList[i].player_identifiers[a] :
                                 a \in 1..Len(TeamList[i].player_identifiers) }

\* gameState with the piece on (x, y) given to participant `owner`
OwnedBy(gameState, x, y, owner) ==
    [gameState EXCEPT !.board = setTile(@, x, y, getTile(@, x, y).piece, owner)]

\* C9: for every piece type, with or without the turn check, isValidMove rejects a
\* move onto a piece of the mover or of a member of the mover's team; with that piece
\* given to a participant of no common team, the same move is accepted exactly when
\* the mover is to move (or the turn is ignored) and its piece attacks the square.
TeammateNeverCaptured ==
    \A from \in Occupied(Current.board) : \A to \in Occupied(Current.board) \ {from} :
    \A ignoreTurn \in BOOLEAN :
        LET mover == Tile(Current, from[1], from[2])
            target == Tile(Current, to[1], to[2])
            me == mover.owner_identifier
        IN  /\ SameTeam(me, target.owner_identifier)
               => ~isValidMove(Current, from[1], from[2], to[1], to[2], ignoreTurn)
            /\ \A enemy \in {1, 2, 3} :
                 ~SameTeam(me, enemy)
                 => ( isValidMove(OwnedBy(Current, to[1], to[2], enemy),
                                  from[1], from[2], to[1], to[2], ignoreTurn)
                      <=> /\ ignoreTurn \/ currentPlayer(Current) = me
                          /\ Attacks(Current.board, mover, to[1], to[2]) )

\* after a move, the participant to move attacks a piece of another member of its
\* team: the capture is rejected, and accepted once the piece is given to the other team
TeammateWitness ==
    /\ Applied # {}
    /\ \E from \in Occupied(Current.board) : \E to \in Occupied(Current.board) \ {from} :
          LET mover == Tile(Current, from[1], from[2])
              target == Tile(Current, to[1], to[2])
          IN  /\ mover.owner_identifier = currentPlayer(Current)
              /\ target.owner_identifier # mover.owner_identifier
              /\ SameTeam(mover.owner_identifier, target.owner_identifier)
              /\ Attacks(Current.board, mover, to[1], to[2])
              /\ ~isValidMove(Current, from[1], from[2], to[1], to[2], FALSE)
              /\ isValidMove(OwnedBy(Current, to[1], to[2], 3),
                             from[1], from[2], to[1], to[2], FALSE)

(***************************************************************************)
(* The packed tile byte.                                                   *)
(***************************************************************************)
\* C10: after setTile(x, y, piece, owner) on a square of the board with piece in 0..15,
\* the stored byte is below 250, and with owner in 0..14 getTile(x, y) returns
\* exactly that piece and that owner.
SetTileGetTile ==
    ( /\ last.op = "setTile"
      /\ ~isOutOfBounds(boards[1], last.x, last.y)
      /\ last.piece \in 0..15 )
    => /\ boards[1].tiles[last.y * boards[1].width + last.x] < 250
       /\ last.owner \in 0..14
          => /\ getTile(boards[1], last.x, last.y).piece = last.piece
             /\ getTile(boards[1], last.x, last.y).owner_identifier = last.owner

\* the largest pair, (15, 14), was written on the last square of the board and read back
SetTileGetTileWitness ==
    /\ last.op = "setTile"
    /\ last.x = boards[1].width - 1
    /\ last.y = boards[1].height - 1
    /\ last.piece = 15
    /\ last.owner = 14
    /\ getTile(boards[1], last.x, last.y).piece = 15
    /\ getTile(boards[1], last.x, last.y).owner_identifier = 14

(***************************************************************************)
(* Boards: clone, fromGrid, coordinates off the board.                     *)
(***************************************************************************)
\* the board the caller reads through held board h, in heap bs
Held(bs, h) == bs[origin[h].ref]

\* C11: right after b2 = b.clone(), b2 has the width, height and tiles of b; and a
\* setTile on one held board leaves every tile of every other held board as it was,
\* so no sequence of writes on a board or its clone shows on the other.
CloneIndependent ==
    /\ last.op = "clone"
       => LET b2 == Held(boards, last.h)
              b == Held(last.before, origin[last.h].src)
          IN  /\ b2.width = b.width
              /\ b2.height = b.height
              /\ b2.tiles = b.tiles
              /\ Held(boards, origin[last.h].src) = b
    /\ last.op = "setTile"
       => \A h \in 1..Len(origin) :
             h # last.h => Held(boards, h) = Held(last.before, h)

\* a clone was written and then the board it was cloned from was written, with a
\* different tile on the same square: the two now differ on that square only through
\* their own writes
CloneWitness ==
    /\ last.op = "setTile"
    /\ \E h \in 1..Len(origin) :
          /\ origin[h].src = last.h
          /\ Held(last.before, h) # Held(last.before, last.h)
          /\ Held(boards, last.h) # Held(last.before, last.h)
          /\ getTile(Held(boards, h), last.x, 0) # getTile(Held(boards, last.h), last.x, 0)

RECURSIVE Leaves(_)
\* the items of an entry in depth-first order, lists opened; an entry that is no list
\* is one item
Leaves(entry) ==
    IF entry.kind # "array" THEN <<entry>>
    ELSE IF entry.items = <<>> THEN <<>>
    ELSE Leaves(Head(entry.items)) \o Leaves(ArrayItem(Tail(entry.items)))

\* C12: the board fromGrid builds has as many rows as the input has top-level entries
\* and is as wide as the longest flattened entry; item i of flattened row r is on tile
\* (i, r): a number as that piece with owner 0, an object as its piece and owner; null
\* items and the tiles after a row's last item are EmptySquare with owner 0.
GridDimensionLaw ==
    last.op = "fromGrid"
    => LET board == boards[1]
           input == last.input
           lengths == { Len(Leaves(input[r])) : r \in 1..Len(input) }
       IN  /\ board.height = Len(input)
           /\ board.width \in lengths \cup {0}
           /\ \A n \in lengths : n <= board.width
           /\ \A r \in 1..Len(input) : \A i \in 0..(board.width - 1) :
                LET row == Leaves(input[r])
                    tile == getTile(board, i, r - 1)
                    item == row[i + 1]
                IN  IF i < Len(row) /\ item.kind = "number"
                    THEN tile.piece = item.value /\ tile.owner_identifier = 0
                    ELSE IF i < Len(row) /\ item.kind = "object"
                    THEN tile.piece = item.piece /\ tile.owner_identifier = item.owner
                    ELSE tile.piece = EmptySquare /\ tile.owner_identifier = 0

\* a board built from a list nested two deep and a bare item: three columns, the
\* second row padded after its only item
GridWitness ==
    /\ last.op = "fromGrid"
    /\ Len(last.input) = 2
    /\ last.input[1] = ArrayItem(<<NumberItem(Rook), NestedItem>>)
    /\ last.input[2] = ObjectItem(King, 2)
    /\ boards[1].width = 3
    /\ getTile(boards[1], 2, 0).piece = Knight
    /\ getTile(boards[1], 0, 1).piece = King
    /\ getTile(boards[1], 1, 1).piece = EmptySquare

\* (x, y) is no square of board b
OffBoard(b, x, y) == ~(x \in 0..(b.width - 1) /\ y \in 0..(b.height - 1))

\* C13: for coordinates off the board, on any side of it, getTile returns an
\* EmptySquare tile with owner 0 and setTile returns the board with every tile as it
\* was, whatever the board holds and whatever is written.
OffBoardNeutral ==
    /\ ( last.op = "setTile" /\ OffBoard(last.before, last.x, last.y) )
       => boards[1] = last.before
    /\ \A x \in (0 - 1)..boards[1].width : \A y \in (0 - 1)..boards[1].height :
          OffBoard(boards[1], x, y)
          => /\ getTile(boards[1], x, y).piece = EmptySquare
             /\ getTile(boards[1], x, y).owner_identifier = 0
             /\ setTile(boards[1], x, y, King, 2) = boards[1]

\* a king of owner 2 was written just right of the first row and no tile changed
OffBoardWitness ==
    /\ last.op = "setTile"
    /\ last.x = boards[1].width
    /\ last.y = 0
    /\ last.piece = King
    /\ last.owner = 2
    /\ \A sq \in Squares(boards[1]) : getTile(boards[1], sq[1], sq[2]).piece = EmptySquare

(***************************************************************************)
(* Notation.                                                               *)
(***************************************************************************)
\* the file letters and rank digits of a move in notation, in order
FileLetters == <<"a", "b", "c", "d", "e", "f", "g", "h">>

RankDigits == <<"1", "2", "3", "4", "5", "6", "7", "8">>

\* the x a file letter names and the y a rank digit names (rank 8 is y = 0)
FileX(ch) == (CHOOSE i \in 1..8 : FileLetters[i] = ch) - 1

RankY(ch) == 8 - (CHOOSE i \in 1..8 : RankDigits[i] = ch)

\* square sq agrees with the disambiguation characters: a file letter, a rank digit
\* or both
Disambiguated(sq, disambiguation) ==
    \A i \in 1..Len(disambiguation) :
        IF \E j \in 1..8 : FileLetters[j] = disambiguation[i]
        THEN sq[1] = FileX(disambiguation[i])
        ELSE sq[2] = RankY(disambiguation[i])

\* the squares, anywhere on the board, of the pieces that a move in notation can mean
Meant(gameState, san) ==
    { sq \in Squares(gameState.board) :
        /\ Tile(gameState, sq[1], sq[2]).piece =
              (IF san.piece = "R" THEN Rook ELSE Pawn)
        /\ Tile(gameState, sq[1], sq[2]).owner_identifier = currentPlayer(gameState)
        /\ Disambiguated(sq, san.disambiguation)
        /\ isValidMove(gameState, sq[1], sq[2], FileX(san.file), RankY(san.rank), FALSE) }

\* C14 (as claimed): parseMove looks at every piece of the named type of the
\* participant to move, anywhere on the board whatever its size; with exactly one
\* that matches the disambiguation and may legally reach the target it returns that
\* piece's move, with none it fails with "no legal move", with more it fails with
\* "ambiguous" and their number.
SanResolvesOverWholeBoard ==
    last.op = "parseMove"
    => LET meant == Meant(Current, last.san)
           result == last.result
       IN  /\ Cardinality(meant) = 0
              => ~result.ok /\ result.error = "No legal move found"
           /\ Cardinality(meant) > 1
              => /\ ~result.ok
                 /\ result.error = "Ambiguous move"
                 /\ result.found = Cardinality(meant)
           /\ \A sq \in meant :
                 meant = {sq}
                 => /\ result.ok
                    /\ result.move.fromX = sq[1]
                    /\ result.move.fromY = sq[2]
                    /\ result.move.toX = FileX(last.san.file)
                    /\ result.move.toY = RankY(last.san.rank)
                    /\ result.move.promotion =
                          (IF last.san.promotion = "Q" THEN Queen ELSE None)

RECURSIVE SplitFrom(_, _, _, _)
\* the pieces of string s between separators, from character i on, `field` being the
\* piece read so far
SplitFrom(s, sep, i, field) ==
    IF i > Len(s) THEN <<field>>
    ELSE IF s[i] = sep THEN <<field>> \o SplitFrom(s, sep, i + 1, <<>>)
    ELSE SplitFrom(s, sep, i + 1, Append(field, s[i]))

Split(s, sep) == SplitFrom(s, sep, 1, <<>>)

IsDigit(c) == \E d \in 1..10 : DigitChars[d] = c

DigitValue(c) == (CHOOSE d \in 1..10 : DigitChars[d] = c) - 1

RECURSIVE ReadRow(_, _, _)
\* a FEN row read from character i on: a number (of any length) as that many empty
\* squares ".", a letter as itself; `run` is the number read so far
ReadRow(row, i, run) ==
    IF i > Len(row) THEN [k \in 1..run |-> "."]
    ELSE IF IsDigit(row[i]) THEN ReadRow(row, i + 1, run * 10 + DigitValue(row[i]))
    ELSE [k \in 1..run |-> "."] \o <<row[i]>> \o ReadRow(row, i + 1, 0)

\* what a tile shows in a FEN row: "." when empty or environmental, else the letter of
\* the piece, upper case exactly for owner 1
Glyph(tile) ==
    IF tile.piece \in PieceTypes
    THEN LET lower == CASE tile.piece = Pawn -> "p" [] tile.piece = Knight -> "n"
                        [] tile.piece = Bishop -> "b" [] tile.piece = Rook -> "r"
                        [] tile.piece = Queen -> "q" [] tile.piece = King -> "k"
             upper == CASE tile.piece = Pawn -> "P" [] tile.piece = Knight -> "N"
                        [] tile.piece = Bishop -> "B" [] tile.piece = Rook -> "R"
                        [] tile.piece = Queen -> "Q" [] tile.piece = King -> "K"
         IN  IF tile.owner_identifier = 1 THEN upper ELSE lower
    ELSE "."

KingsFen ==
    <<"4", "k", "3", "/", "8", "/", "8", "/", "8", "/", "8", "/", "8", "/", "8", "/",
      "4", "K", "3", " ", "w", " ", "-", " ", "-", " ", "0", " ", "1">>

\* the six fields of the string toFEN returned last
FenFields == Split(last.fen, " ")

\* C15: the board field of toFEN has one row per board row, from y = 0 down, joined by
\* "/", and each row read back (numbers as runs of empty or environmental squares,
\* letters as pieces, upper case exactly for owner 1) is the board row tile for tile;
\* the two-kings position of the test gives exactly 4k3/8/8/8/8/8/8/4K3 w - - 0 1.
FenBoardField ==
    last.op = "toFEN"
    => LET board == Current.board
           rows == Split(FenFields[1], "/")
       IN  /\ Len(FenFields) = 6
           /\ Len(rows) = board.height
           /\ \A y \in 0..(board.height - 1) :
                 ReadRow(rows[y + 1], 1, 0) =
                     [x \in 1..board.width |-> Glyph(getTile(board, x - 1, y))]
           /\ ( /\ board = KingsBoard
                /\ Current.participants = <<1, 2>>
                /\ Current.turn = 0
                /\ DOMAIN Current.castlingRights = {}
                /\ Current.enPassantTarget = Null
                /\ Current.moveHistory = <<>> )
              => last.fen = KingsFen

\* toFEN was called on the two-kings position of the test
FenBoardWitness ==
    /\ last.op = "toFEN"
    /\ Current.board = KingsBoard
    /\ Current.moveHistory = <<>>
    /\ Current.turn = 0
    /\ last.fen = KingsFen

\* C16 (as claimed): the active-colour field of toFEN is "w" exactly when
\* participants[turn mod count], the participant isValidMove lets move, is 1, and "b"
\* otherwise, also when turn is not below the participant count.
FenActiveColourIsMover ==
    last.op = "toFEN"
    => /\ FenFields[2] \in {<<"w">>, <<"b">>}
       /\ FenFields[2] = <<"w">>
          <=> Current.participants[(Current.turn % Len(Current.participants)) + 1] = 1

RECURSIVE MovesTo(_)
\* the moves applyMove was called with, in order, on the way to state i
MovesTo(i) ==
    IF origin[i].src = 0 THEN <<>> ELSE Append(MovesTo(origin[i].src), origin[i].move)

RECURSIVE NumberRead(_, _)
\* the number the first i characters of a string of digits write
NumberRead(field, i) ==
    IF i = 0 THEN 0 ELSE NumberRead(field, i - 1) * 10 + DigitValue(field[i])

\* C17: from a state with empty history, the history of every state reached by k
\* applyMove calls is the k moves in the order applied, and toFEN of it reports
\* halfmove clock 0 and fullmove number floor(k / 2) + 1.
HistoryCountsMoves ==
    /\ \A i \in 1..Len(states) : State(i).moveHistory = MovesTo(i)
    /\ last.op = "toFEN"
       => /\ FenFields[5] = <<"0">>
          /\ NumberRead(FenFields[6], Len(FenFields[6])) = (Len(MovesTo(cur)) \div 2) + 1

\* toFEN after two different moves: fullmove number 2
HistoryWitness ==
    /\ last.op = "toFEN"
    /\ Len(MovesTo(cur)) = 2
    /\ MovesTo(cur)[1] # MovesTo(cur)[2]
    /\ Current.moveHistory = MovesTo(cur)
    /\ FenFields[6] = <<"2">>

IsFile(c) == \E j \in 1..8 : FileLetters[j] = c

IsRank(c) == \E j \in 1..8 : RankDigits[j] = c

\* C18 (as claimed): uciToMove fails for every string whose length is not 4 or 5,
\* shorter or longer; for a string of 4 or 5 characters file-rank-file-rank it returns
\* the move between the two squares, with the piece a fifth letter q, r, b or n names.
UciLengthChecked ==
    last.op = "uciToMove"
    => LET uci == last.uci
           result == last.result
       IN  /\ Len(uci) \notin {4, 5} => ~result.ok
           /\ ( /\ Len(uci) \in {4, 5}
                /\ IsFile(uci[1]) /\ IsRank(uci[2]) /\ IsFile(uci[3]) /\ IsRank(uci[4]) )
              => /\ result.ok
                 /\ result.move.fromX = FileX(uci[1])
                 /\ result.move.fromY = RankY(uci[2])
                 /\ result.move.toX = FileX(uci[3])
                 /\ result.move.toY = RankY(uci[4])
                 /\ Len(uci) = 4 => result.move.promotion = None
                 /\ (Len(uci) = 5 /\ uci[5] = "q") => result.move.promotion = Queen
                 /\ (Len(uci) = 5 /\ uci[5] = "n") => result.move.promotion = Knight

(***************************************************************************)
(* New games and castling rights.                                          *)
(***************************************************************************)
RECURSIVE Members(_, _)
\* the members of the teams from team i on, team after team
Members(teams, i) ==
    IF i > Len(teams) THEN <<>> ELSE teams[i].player_identifiers \o Members(teams, i + 1)

\* C19: the state newGame(board, teams) returns has turn 0, the members of the teams
\* in team order as participants, the given team list and board, an empty
\* castling-rights map, no en-passant target and an empty move history.
NewGameState ==
    last.op = "newGame"
    => /\ Current.turn = 0
       /\ Current.participants = Members(last.teams, 1)
       /\ Current.teams = last.teams
       /\ Current.board = NewBoard
       /\ DOMAIN Current.castlingRights = {}
       /\ Current.enPassantTarget = Null
       /\ Current.moveHistory = <<>>

\* a game was started with two teams, of two members and of one
NewGameWitness ==
    /\ last.op = "newGame"
    /\ last.teams = TeamList
    /\ Current.participants = <<1, 2, 3>>

\* participant `owner` holds the castling right of `side` in gameState
HasRight(gameState, owner, side) ==
    /\ owner \in DOMAIN gameState.castlingRights
    /\ IF side = "kingSide" THEN gameState.castlingRights[owner].kingSide
                            ELSE gameState.castlingRights[owner].queenSide

RECURSIVE Root(_)
\* the state the game of state i started from
Root(i) == IF origin[i].src = 0 THEN i ELSE Root(origin[i].src)

RookBeyond(gameState, owner, fromX, toX, y, rx) ==
    /\ ~isOutOfBounds(gameState.board, rx, y)
    /\ (toX - fromX) * (rx - toX) > 0
    /\ Tile(gameState, rx, y).piece = Rook
    /\ Tile(gameState, rx, y).owner_identifier = owner
    /\ \A x \in Between(fromX, rx) : Tile(gameState, x, y).piece = EmptySquare

\* C21: when a king moves two files along its rank toward a rook of its owner, with
\* only empty squares between king and rook, the state applyMove returns has the king
\* on its destination, that rook on the square the king passed over, the king's and
\* the rook's old squares empty, and both castling rights of the mover false.
CastlingRelocatesRook ==
    \A i \in Applied :
        LET old == origin[i].before
            new == State(i)
            move == origin[i].move
            king == Tile(old, move.fromX, move.fromY)
            passed == (move.fromX + move.toX) \div 2
        IN  \A rx \in 0..(old.board.width - 1) :
              ( /\ king.piece = King
                /\ move.toY = move.fromY
                /\ Abs(move.toX - move.fromX) = 2
                /\ RookBeyond(old, king.owner_identifier, move.fromX, move.toX,
                              move.fromY, rx) )
              => /\ Tile(new, move.toX, move.toY).piece = King
                 /\ Tile(new, move.toX, move.toY).owner_identifier = king.owner_identifier
                 /\ Tile(new, passed, move.fromY).piece = Rook
                 /\ Tile(new, passed, move.fromY).owner_identifier = king.owner_identifier
                 /\ Tile(new, move.fromX, move.fromY).piece = EmptySquare
                 /\ Tile(new, rx, move.fromY).piece = EmptySquare
                 /\ king.owner_identifier \in DOMAIN new.castlingRights
                 /\ ~new.castlingRights[king.owner_identifier].kingSide
                 /\ ~new.castlingRights[king.owner_identifier].queenSide

\* the king of owner 1 castled to the queen side, with an empty square left between
\* the rook's corner and its new square
CastlingWitness ==
    \E i \in Applied :
        /\ Tile(origin[i].before, 3, 1).piece = King
        /\ origin[i].move = Move(3, 1, 1, 1, None)
        /\ Tile(origin[i].before, 0, 1).piece = Rook
        /\ Tile(State(i), 2, 1).piece = Rook
        /\ Tile(State(i), 0, 1).piece = EmptySquare
        /\ Tile(State(i), 1, 1).piece = King

\* participant `owner` holds the right of `side` in rights map m
Holds(m, owner, side) ==
    /\ owner \in DOMAIN m
    /\ IF side = "kingSide" THEN m[owner].kingSide ELSE m[owner].queenSide

\* C22: applyMove changes castling rights only so: a moved king's owner has both
\* rights false; the owner of a rook that leaves file 0 has the queen-side right false
\* and the king-side right as before; the owner of a rook that leaves file width-1 has
\* the king-side right false and the queen-side right as before; for every other move,
\* and for every participant but the mover, the rights are those of the old state.
RightsChangeOnlyForKingAndRook ==
    \A i \in Applied :
        LET old == origin[i].before
            new == State(i)
            move == origin[i].move
            piece == Tile(old, move.fromX, move.fromY).piece
            owner == Tile(old, move.fromX, move.fromY).owner_identifier
            width == old.board.width
            same(p) == /\ (p \in DOMAIN new.castlingRights) = (p \in DOMAIN old.castlingRights)
                       /\ p \in DOMAIN old.castlingRights
                          => new.castlingRights[p] = old.castlingRights[p]
        IN  /\ \A p \in 0..3 : p # owner => same(p)
            /\ CASE piece = King ->
                      /\ ~Holds(new.castlingRights, owner, "kingSide")
                      /\ ~Holds(new.castlingRights, owner, "queenSide")
                 [] piece = Rook /\ move.fromX = 0 ->
                      /\ ~Holds(new.castlingRights, owner, "queenSide")
                      /\ Holds(new.castlingRights, owner, "kingSide")
                            = Holds(old.castlingRights, owner, "kingSide")
                 [] piece = Rook /\ move.fromX = width - 1 ->
                      /\ ~Holds(new.castlingRights, owner, "kingSide")
                      /\ Holds(new.castlingRights, owner, "queenSide")
                            = Holds(old.castlingRights, owner, "queenSide")
                 [] OTHER -> same(owner)

\* a rook of owner 2 left file 0: owner 2 lost the queen-side right only, and owner 1
\* kept both
RightsChangeWitness ==
    \E i \in Applied :
        /\ Tile(origin[i].before, 0, 0).piece = Rook
        /\ origin[i].move.fromX = 0
        /\ origin[i].move.fromY = 0
        /\ origin[i].before.castlingRights = [o \in {1, 2} |-> FullRights]
        /\ State(i).castlingRights[2] = [kingSide |-> TRUE, queenSide |-> FALSE]
        /\ State(i).castlingRights[1] = FullRights

(***************************************************************************)
(* Games played from notation.                                             *)
(***************************************************************************)
\* the n-th of the pieces of string s that separator sep divides it into
Piece(s, sep, n) ==
    LET seps == {i \in 1..Len(s) : s[i] = sep}
        nth(k) == CHOOSE i \in seps : Cardinality({j \in seps : j < i}) = k - 1
        first == IF n = 1 THEN 1 ELSE nth(n - 1) + 1
        end == IF n = Cardinality(seps) + 1 THEN Len(s) ELSE nth(n) - 1
    IN  SubSeq(s, first, end)

\* the moves the five strings of the basic game mean
BasicMoves ==
    << Move(4, 6, 4, 4, None), Move(4, 1, 4, 3, None), Move(6, 7, 5, 5, None),
       Move(1, 0, 2, 2, None), Move(5, 7, 1, 3, None) >>

\* C23: from the standard position made by newGame with participants 1 and 2, the
\* strings e4, e5, Nf3, Nc6, Bb5 are each resolved by parseMove to one move (the
\* e-pawns' double steps, the knights from g1 and b8, the bishop from f1) and applied
\* in order with no error; toFEN after k of them shows the piece moved last on its new
\* square, and the active colour b for odd k and w for even k.
BasicGamePlays ==
    moves = BasicGame
    => /\ last.op # "error"
       /\ MovesTo(cur) = SubSeq(BasicMoves, 1, Len(MovesTo(cur)))
       /\ last.op = "toFEN"
          => LET k == last.n
                 row == Piece(Piece(last.fen, " ", 1), "/", BasicMoves[k].toY + 1)
             IN  /\ Piece(last.fen, " ", 2) = (IF k % 2 = 1 THEN <<"b">> ELSE <<"w">>)
                 /\ k > 0 => ReadRow(row, 1, 0)[BasicMoves[k].toX + 1]
                                 = <<"P", "p", "N", "n", "B">>[k]

\* the example has played its five moves from a state without castling rights, and
\* toFEN shows the bishop on b5 and black to move
BasicGameWitness ==
    /\ moves = BasicGame
    /\ DOMAIN Current.castlingRights = {}
    /\ last.op = "toFEN"
    /\ last.n = 5
    /\ Tile(Current, 1, 3).piece = Bishop
    /\ Piece(last.fen, " ", 2) = <<"b">>

\* C24: from the standard position with full castling rights for participants 1 and
\* 2, every move of the Anderssen - Kieseritzky game is accepted by parseMove and
\* applied in order; the final board has a bishop of owner 1 on e7 and the king of
\* owner 2 on d8.
ImmortalGamePlays ==
    (moves = ImmortalGame /\ State(1).castlingRights = [o \in {1, 2} |-> FullRights])
    => /\ last.op # "error"
       /\ \A i \in Applied : origin[i].valid
       /\ last.n = Len(ImmortalGame)
          => /\ Len(Current.moveHistory) = Len(ImmortalGame)
             /\ Tile(Current, 4, 1).piece = Bishop
             /\ Tile(Current, 4, 1).owner_identifier = 1
             /\ Tile(Current, 3, 0).piece = King
             /\ Tile(Current, 3, 0).owner_identifier = 2

\* the last move of the game, Be7, has been applied
ImmortalGameWitness ==
    /\ moves = ImmortalGame
    /\ State(1).castlingRights = [o \in {1, 2} |-> FullRights]
    /\ last.op = "applyMove"
    /\ last.n = Len(ImmortalGame)
    /\ origin[cur].move = Move(3, 2, 4, 1, None)

(***************************************************************************)
(* Turn order.                                                             *)
(***************************************************************************)
\* the participant whose piece move number i was made with
Mover(i) ==
    Tile(origin[i].before, origin[i].move.fromX, origin[i].move.fromY).owner_identifier

OnAxis(piece, dx, dy) ==
    LET diagonal == Abs(dx) = Abs(dy) /\ dx # 0
        orthogonal == (dx = 0) # (dy = 0)
    IN  CASE piece = Bishop -> diagonal
          [] piece = Rook -> orthogonal
          [] piece = Queen -> diagonal \/ orthogonal

\* C26: for a bishop, rook or queen isValidMove, the turn permitting, accepts a move
\* exactly when the displacement lies on an axis of the piece (diagonal for the
\* bishop, orthogonal for the rook, either for the queen), every square strictly
\* between source and destination is empty and the destination holds no piece of a
\* teammate; a piece of any owner on a square between makes the move illegal.
SlidersNeedClearLine ==
    \A from \in Occupied(Current.board) : \A to \in Squares(Current.board) :
    \A ignoreTurn \in BOOLEAN :
        LET mover == Tile(Current, from[1], from[2])
            target == Tile(Current, to[1], to[2])
            me == mover.owner_identifier
        IN  mover.piece \in {Bishop, Rook, Queen}
            => ( isValidMove(Current, from[1], from[2], to[1], to[2], ignoreTurn)
                 <=> /\ ignoreTurn \/ currentPlayer(Current) = me
                     /\ OnAxis(mover.piece, to[1] - from[1], to[2] - from[2])
                     /\ ClearLine(Current.board, from[1], from[2], to[1], to[2])
                     /\ ~(target.owner_identifier # 0 /\ SameTeam(me, target.owner_identifier)) )

\* the queen of owner 1 in the centre is kept from the empty square (2, 0) by the rook
\* of another participant on (2, 1), and free to go to (0, 0)
SlidersWitness ==
    /\ Tile(Current, 2, 2).piece = Queen
    /\ Tile(Current, 2, 2).owner_identifier = 1
    /\ Current.turn = 0
    /\ Tile(Current, 2, 1).piece = Rook
    /\ Tile(Current, 2, 1).owner_identifier \in {2, 3}
    /\ IsEmptyPiece(Tile(Current, 2, 0).piece)
    /\ ~isValidMove(Current, 2, 2, 2, 0, FALSE)
    /\ isValidMove(Current, 2, 2, 0, 0, FALSE)

(***************************************************************************)
(* Pawn steps and captures.                                                *)
(***************************************************************************)
\* C27 (as claimed): apart from the double step, isValidMove accepts a pawn move only
\* when it goes one square straight forward onto an empty square, or one square
\* diagonally forward onto a square that holds a piece of a participant who is no
\* teammate, or onto the registered en-passant target; forward is decreasing y for
\* owner 1 and increasing y for every other owner.
PawnMovesOnlyForward ==
    \A p \in Pawns(Current) : \A to \in Squares(Current.board) : \A ignoreTurn \in BOOLEAN :
        LET dx == to[1] - p.x
            dy == to[2] - p.y
            target == Tile(Current, to[1], to[2])
        IN  ( /\ isValidMove(Current, p.x, p.y, to[1], to[2], ignoreTurn)
              /\ ~(dx = 0 /\ Abs(dy) = 2) )
            => /\ dy = Forward(p.owner_identifier)
               /\ \/ dx = 0 /\ IsEmptyPiece(target.piece)
                  \/ /\ Abs(dx) = 1
                     /\ \/ /\ target.piece \in PieceTypes
                           /\ ~areTeammates(Current, p.owner_identifier,
                                            target.owner_identifier)
                        \/ Current.enPassantTarget = <<[x |-> to[1], y |-> to[2]]>>

(***************************************************************************)
(* King moves.                                                             *)
(***************************************************************************)
\* the tiles of `gameState` that hold a king
Kings(gameState) ==
    { k \in { getTile(gameState.board, sq[1], sq[2]) : sq \in Occupied(gameState.board) } :
        k.piece = King }

\* C28 (as claimed): isValidMove accepts a king move only if it is one step to a
\* neighbouring square, or a move of more than one file along the king's own rank
\* that passes castling validation; a king move that changes rank and moves more than
\* one file is always rejected, whatever the castling rights.
KingStepsOrCastles ==
    \A k \in Kings(Current) : \A to \in Squares(Current.board) : \A ignoreTurn \in BOOLEAN :
        LET dx == to[1] - k.x
            dy == to[2] - k.y
        IN  isValidMove(Current, k.x, k.y, to[1], to[2], ignoreTurn)
            => \/ Abs(dx) <= 1 /\ Abs(dy) <= 1
               \/ /\ Abs(dx) > 1
                  /\ dy = 0
                  /\ isCastlingValid(Current, k, to[1], to[2])

(***************************************************************************)
(* Promotion and termination.                                              *)
(***************************************************************************)
\* C29 (as claimed): the piece applyMove writes on the destination has another type
\* than the piece on the source square only when that piece is a pawn, the move
\* carries a promotion piece and the destination is on the pawn's far rank (y = 0 for
\* owner 1, y = height-1 for the others).
TypeChangesOnlyOnFarRank ==
    \A i \in Applied :
        LET old == origin[i].before
            move == origin[i].move
            moved == Tile(old, move.fromX, move.fromY)
        IN  ( origin[i].valid
              /\ Tile(State(i), move.toX, move.toY).piece # moved.piece )
            => /\ moved.piece = Pawn
               /\ move.promotion # None
               /\ move.toY = FarRank(old.board.height, moved.owner_identifier)

\* C30 (as claimed): isValidMove and isSquareUnderAttack return a boolean for every
\* game state and all coordinates: the recursion from isValidMove through castling
\* validation and isSquareUnderAttack back to isValidMove is finite.
ValidationTerminates ==
    last.op \in {"isValidMove", "isSquareUnderAttack"}
    => /\ last.result.returns
       /\ last.result.value \in BOOLEAN

(***************************************************************************)
(* Square names                                                            *)
(***************************************************************************)
\* the name of the square (x, y) on a board of the given height when rank 1 is the
\* row y = height - 1
NameOf(height, x, y) == <<LetterChars[x + 1]>> \o toString(height - y)

\* the last two characters of a string
Tail2(s) == SubSeq(s, Len(s) - 1, Len(s))

\* C31: on a board of any height the name of a square, with rank 1 the row
\* y = height - 1, denotes that square in the board's algebraic lookup, in the
\* en-passant field of toFEN, in uciToMove, in the target of parseMove and in the
\* output of moveToSAN.
SquareNamesAgree ==
    \A i \in 1..Len(states) :
        LET gameState == State(i)
            board == gameState.board
        IN  \A sq \in Squares(board) :
            LET x == sq[1]
                y == sq[2]
                name == NameOf(board.height, x, y)
            IN  /\ getTileByAlgebraicCoordinates(board, name[1], board.height - y)
                       = getTile(board, x, y)
                /\ (gameState.enPassantTarget # Null
                        /\ gameState.enPassantTarget[1].x = x
                        /\ gameState.enPassantTarget[1].y = y)
                     => fenEnPassant(gameState) = name
                /\ LET parsed == uciToMove(name \o name)
                   IN  parsed.ok /\ parsed.move.fromX = x /\ parsed.move.fromY = y
                                 /\ parsed.move.toX = x /\ parsed.move.toY = y
                /\ LET parsed == parseSan(gameState, name)
                   IN  parsed.ok => parsed.move.toX = x /\ parsed.move.toY = y
                /\ \A from \in Occupied(board) :
                       getTile(board, from[1], from[2]).piece \in {Knight, Bishop, Rook, Queen}
                         => Tail2(moveToSAN(Move(from[1], from[2], x, y, None), gameState))
                                = name

(***************************************************************************)
(* Game controller                                                         *)
(***************************************************************************)
\* C32: every move the game controller applies for a typed line was accepted by
\* isValidMove in the state it was applied to: parseMove returns only legal moves,
\* castling included, and fails otherwise.
TypedMovesAreLegal ==
    \A i \in Applied : origin[i].valid

\* C33: whenever isValidMove accepted a king's move of more than one file along its
\* rank, the state applyMove returned has a rook of the mover on the square next to
\* the king's new square, on the side the king came from.
CastlingBringsRook ==
    \A i \in Applied :
        LET old == origin[i].before
            move == origin[i].move
            moved == Tile(old, move.fromX, move.fromY)
            dx == move.toX - move.fromX
            beside == IF dx > 0 THEN move.toX - 1 ELSE move.toX + 1
        IN  ( /\ origin[i].valid
              /\ moved.piece = King
              /\ Abs(dx) > 1
              /\ move.toY = move.fromY )
            => /\ Tile(State(i), beside, move.toY).piece = Rook
               /\ Tile(State(i), beside, move.toY).owner_identifier = moved.owner_identifier

\* p1 and p2 are different participants and members of one team of the game
Allied(gameState, p1, p2) ==
    /\ p1 # p2
    /\ \E i \in 1..Len(gameState.teams) :
          {p1, p2} \subseteq { gameState.teams[i].player_identifiers[a] :
                                 a \in 1..Len(gameState.teams[i].player_identifiers) }

\* C34: after a move isValidMove accepted, every piece of a teammate of the mover
\* stands where it stood, with the same type and owner (captures, en-passant
\* captures and the rook relocation of castling included).
TeammatePiecesStay ==
    \A i \in Applied :
        LET old == origin[i].before
            move == origin[i].move
            me == Tile(old, move.fromX, move.fromY).owner_identifier
        IN  origin[i].valid =>
            \A sq \in Occupied(old.board) :
                LET t == Tile(old, sq[1], sq[2])
                IN  (t.owner_identifier # 0 /\ Allied(old, me, t.owner_identifier))
                    => /\ Tile(State(i), sq[1], sq[2]).piece = t.piece
                       /\ Tile(State(i), sq[1], sq[2]).owner_identifier = t.owner_identifier

\* the environmental tiles that are not the empty square
Terrain == {SpecialTile, Impassable, EmptyEdge, ConnectedEdge}

\* C35: isValidMove accepts no move, of any piece and with or without the turn
\* check, onto a SpecialTile, Impassable, EmptyEdge or ConnectedEdge tile, and after a
\* validated move every such tile is where it was.
TerrainNeverEntered ==
    /\ \A i \in 1..Len(states) :
          \A from \in Occupied(State(i).board) : \A to \in Squares(State(i).board) :
              Tile(State(i), to[1], to[2]).piece \in Terrain
              => \A ignoreTurn \in BOOLEAN :
                    ~isValidMove(State(i), from[1], from[2], to[1], to[2], ignoreTurn)
    /\ \A i \in Applied :
          origin[i].valid
          => \A sq \in Squares(origin[i].before.board) :
                Tile(origin[i].before, sq[1], sq[2]).piece \in Terrain
                => Tile(State(i), sq[1], sq[2]).piece
                       = Tile(origin[i].before, sq[1], sq[2]).piece

(***************************************************************************)
(* Notation round trip                                                     *)
(***************************************************************************)
\* C36: on an 8 x 8 board, for every pawn move isValidMove accepts in a state, with
\* no promotion piece or with a knight, bishop, rook or queen, parseMove of the
\* move's moveToSAN string succeeds and returns the same source, destination and
\* promotion.
PawnSanRoundTrip ==
    \A i \in 1..Len(states) :
        LET gameState == State(i)
        IN  \A from \in Occupied(gameState.board) : \A to \in Squares(gameState.board) :
            \A promo \in {None, Knight, Bishop, Rook, Queen} :
               ( /\ gameState.board.width = 8 /\ gameState.board.height = 8
                 /\ Tile(gameState, from[1], from[2]).piece = Pawn
                 /\ isValidMove(gameState, from[1], from[2], to[1], to[2], FALSE) )
               => LET m == Move(from[1], from[2], to[1], to[2], promo)
                      parsed == parseSan(gameState, moveToSAN(m, gameState))
                  IN  parsed.ok /\ parsed.move = m

\* C37 (state part): the history is never empty, its first entry is the initial
\* state and its last entry is the current game state.
HistoryShape ==
    /\ Len(app.history) >= 1
    /\ app.history[1] = app.initialGameState
    /\ app.history[Len(app.history)] = cur

\* the last line typed is an undo
IsUndo(entry) == entry.op = "command" /\ lowerTrim(entry.cmd) \in {Chars("undo"), Chars("u")}

\* C37 (step part): a successful move appends the new current state to the history,
\* so that the state before it is the entry below; undo drops the last entry and
\* makes the entry below current, and changes nothing on a single-entry history.
HistorySteps ==
    /\ (last'.op = "command" /\ Len(states') > Len(states))
         => /\ app'.history = Append(app.history, cur')
            /\ app'.history[Len(app'.history) - 1] = cur
    /\ IsUndo(last')
         => IF Len(app.history) = 1
            THEN UNCHANGED <<boards, maps, lists, states, cur, app>>
            ELSE /\ app'.history = SubSeq(app.history, 1, Len(app.history) - 1)
                 /\ cur' = app.history[Len(app.history) - 1]
                 /\ UNCHANGED <<boards, maps, lists, states>>

\* C37: in a GameController, after any sequence of moves, undos and restarts (and
\* of moves of the AI), the history is never empty, starts with the initial state
\* and ends with the current state; a move followed by undo makes the state before
\* the move current again, and undo on a single-entry history changes nothing.
HistoryTracksGame == [](HistoryShape) /\ [][HistorySteps]_vars

\* a move was undone: the newest state object is off the history and the state it
\* was made from is current
HistoryWitnessUndo ==
    /\ IsUndo(last)
    /\ Len(states) > 1
    /\ origin[Len(states)].src = cur
    /\ \A k \in 1..Len(app.history) : app.history[k] # Len(states)

\* C39: the AI's move is applied to the position whose FEN was sent to the AI.
AiMoveAppliedToSentPosition ==
    last.op = "aiReply" => /\ State(last.appliedTo) = State(last.sent)
                           /\ toFEN(State(last.appliedTo)) = last.fen

\* C38: in a replay the position shown is the one reached by the first currentIndex
\* moves of the list: currentIndex is the history length less one, and the current
\* state is the last of the states made from the initial one by those moves in order.
ReplayIndexTracksPosition ==
    /\ app.currentIndex = Len(app.history) - 1
    /\ Len(State(cur).moveHistory) = app.currentIndex
    /\ \A k \in 1..Len(State(cur).moveHistory) :
          LET before == State(app.history[k])
              parsed == parseSan(before, app.moves[k])
          IN  parsed.ok /\ State(cur).moveHistory[k] = parsed.move

(***************************************************************************)
(* StockfishEngine                                                         *)
(***************************************************************************)
IsSearch(c) == c <= Len(app.calls) /\ app.calls[c].fn = "getBestMove"

\* a getBestMove promise that resolved did so with the bestmove line of its own
\* search, and the line just delivered went to no handler of another call
OwnLinesOnly ==
    /\ \A c \in 1..Len(app.calls) :
          (IsSearch(c) /\ app.calls[c].status = "resolved") => app.calls[c].bestMove = c
    /\ (last.op = "deliver" /\ last.handler.type # "none")
          => last.handler.call = last.line.call

\* C40: every getBestMove call settles (resolved by a bestmove line or rejected by
\* the search timeout), and with overlapping calls of getBestMove, setOptions and
\* start a getBestMove promise resolves only with the bestmove line of its own
\* search and no line is delivered to a handler installed by another call.
SearchSettlesWithOwnLine ==
    /\ [](OwnLinesOnly)
    /\ \A c \in 1..MaxEngineCalls :
          IsSearch(c) ~> (IsSearch(c) /\ app.calls[c].status # "pending")
====
